---------------------------- MODULE Spec2Model ----------------------------
(***************************************************************************)
(* Click-tracking redirector: the relational variant                       *)
(* (src/click_tracking_db.py, PostgreSQL, one connection and one           *)
(* transaction per request) and the file-backed variant                    *)
(* (src/click_tracking_railway.py, one in-memory dict dumped to a JSON     *)
(* file, Flask request threads).  The variable "variant" fixes in Init     *)
(* which of the two programs a behaviour runs.                             *)
(*                                                                         *)
(* Requests are served by handlers.  In the file-backed variant the        *)
(* handlers are the threads of one process: they share click_data and      *)
(* ip_tracker and interleave between statements.  In the relational        *)
(* variant every handler is a server process of its own (an async handler  *)
(* without an await runs to completion inside its process): each has its   *)
(* own ip_tracker, all share the database, and they interleave between     *)
(* SQL statements under READ COMMITTED with row locks.                     *)
(***************************************************************************)
EXTENDS Integers, Sequences, FiniteSets, TLC

(***************************************************************************)
(* Bounds of the model.                                                    *)
(***************************************************************************)
NumHandlers == 2
MaxReq == 2
MaxTicks == 1
MaxFaults == 1
MaxCalls == 11
MaxWaits == 2
MaxParts == 2
MaxPairs == 3
MaxThreadCalls == 6
MaxKeyCalls == 4

(***************************************************************************)
(* Program constants.                                                      *)
(***************************************************************************)
FINAL_DESTINATION == "https://nonai.life/"
BOT_USER_AGENTS ==
    << "facebookexternalhit", "Twitterbot", "LinkedInBot", "WhatsApp",
       "TelegramBot", "Slackbot", "Discordbot", "Googlebot", "Bingbot",
       "YandexBot", "DuckDuckBot", "Applebot", "Slurp", "ia_archiver",
       "Mediapartners-Google", "Bytespider", "Pinterest", "Iframely",
       "MetaInspector", "bot", "crawler", "spider", "scraper", "checker",
       "monitor", "headless", "selenium", "phantomjs", "puppeteer" >>
browser_indicators ==
    << "mozilla", "chrome", "safari", "firefox", "edge", "opera", "webkit",
       "gecko", "msie", "trident" >>
mobile_indicators == << "mobile", "android", "iphone", "ipad", "ipod" >>
\* no secondary check for HTTP-client and library signatures
no_bot_patterns == << >>

bot_patterns ==
    << "python", "requests", "urllib", "curl", "wget", "http-client",
       "go-http", "java", "okhttp" >>
RESET_WINDOW == 3600
BURST_WINDOW == 60
BURST_LIMIT == 5
HISTORY_LIMIT == 50
IP_CHARS == 15
UA_CHARS_DB == 100
UA_CHARS_FILE == 30

\* SQL NULL / Python None for a timestamp; the clock starts above it.
NULL == 0
\* Python None for the client address (no X-Forwarded-For, no peer address).
None == "<None>"

(***************************************************************************)
(* Inputs of the requests.                                                 *)
(***************************************************************************)
Handlers == 1..NumHandlers
TrackingIds == {"a1b2c3d4", "e5f6a7b8"}
IPs == {"203.0.113.7"}
UserAgents == {"Mozilla/5.0 (X11; Linux x86_64)", "Twitterbot/1.0"}
\* generate: platform, badge_type, username
GenPlatforms == {"facebook"}
BadgeTypes == {"gold"}
GenUsernames == {"unknown"}
\* confirm: post_url, platform, username ("": none given)
PostUrls == {"https://x.com/p/1"}
ConfirmPlatforms == {"twitter", "linkedin"}
ConfirmUsernames == {"", "alice"}
UpdateUsernames == {"alice"}
\* the query string of a tracking URL: platform[:3], badge_type[:1]
PCodes == {"fac"}
BCodes == {"g"}

(***************************************************************************)
(* String helpers (Python str.lower, "in", slicing).                       *)
(***************************************************************************)
UPPER == "ABCDEFGHIJKLMNOPQRSTUVWXYZ"
LOWER == "abcdefghijklmnopqrstuvwxyz"

Min(a, b) == IF a < b THEN a ELSE b

LowerChar(c) ==
    IF \E i \in 1..Len(UPPER) : SubSeq(UPPER, i, i) = c
    THEN LET i == CHOOSE i \in 1..Len(UPPER) : SubSeq(UPPER, i, i) = c
         IN  SubSeq(LOWER, i, i)
    ELSE c

RECURSIVE Lower(_)
Lower(s) ==
    IF Len(s) = 0 THEN ""
    ELSE LowerChar(SubSeq(s, 1, 1)) \o Lower(SubSeq(s, 2, Len(s)))

\* Python: t in s
Contains(s, t) ==
    \E i \in 1..(Len(s) - Len(t) + 1) : SubSeq(s, i, i + Len(t) - 1) = t

\* Python: s[:n]
Take(s, n) == SubSeq(s, 1, Min(n, Len(s)))

AnyIn(list, s) == \E k \in 1..Len(list) : Contains(s, list[k])

\* bot_ua.lower() for each bot_ua in BOT_USER_AGENTS
bot_ua_lower == [k \in 1..Len(BOT_USER_AGENTS) |-> Lower(BOT_USER_AGENTS[k])]

(***************************************************************************)
(* is_bot_request                                                          *)
(***************************************************************************)
\* A classifier that compares the deny list in the case it is written in.
is_bot_request_cased(user_agent) ==
    IF user_agent = "" THEN TRUE
    ELSE LET ua == Lower(user_agent)
         IN  IF \E k \in 1..Len(BOT_USER_AGENTS) :
                    Contains(user_agent, BOT_USER_AGENTS[k])
             THEN TRUE
             ELSE LET has_browser == AnyIn(browser_indicators, ua)
                      has_mobile == AnyIn(mobile_indicators, ua)
                  IN  IF ~has_browser /\ ~has_mobile
                      THEN AnyIn(bot_patterns, ua)
                      ELSE FALSE

is_bot_request(user_agent) ==
    IF user_agent = "" THEN TRUE
    ELSE LET ua == Lower(user_agent)
         IN  IF \E k \in 1..Len(BOT_USER_AGENTS) :
                    Contains(ua, bot_ua_lower[k])
             THEN TRUE
             ELSE LET has_browser == AnyIn(browser_indicators, ua)
                      has_mobile == AnyIn(mobile_indicators, ua)
                  IN  IF ~has_browser /\ ~has_mobile
                      THEN AnyIn(bot_patterns, ua)
                      ELSE FALSE

\* is_bot_request on the user agents the requests of the model carry.
IsBot == [ua \in UserAgents |-> is_bot_request(ua)]

(***************************************************************************)
(* ip_tracker: a dict key -> (last_time, count); is_rate_limited and       *)
(* clean_ip_tracker on one process's dict at time t.                       *)
(***************************************************************************)
StrOf(ip) == IF ip = None THEN "None" ELSE ip

Key(ip, tracking_id) == StrOf(ip) \o "_" \o tracking_id

Put(d, k, v) == [x \in DOMAIN d \cup {k} |-> IF x = k THEN v ELSE d[x]]

\* A limiter that lets the call after the fifth through.
rate_limited_late(tr, ip, tracking_id, t) ==
    LET key == Key(ip, tracking_id)
    IN  /\ key \in DOMAIN tr
        /\ ~(t - tr[key][1] > RESET_WINDOW)
        /\ t - tr[key][1] < BURST_WINDOW
        /\ tr[key][2] > BURST_LIMIT

\* The value is_rate_limited returns.
rate_limited(tr, ip, tracking_id, t) ==
    LET key == Key(ip, tracking_id)
    IN  /\ key \in DOMAIN tr
        /\ ~(t - tr[key][1] > RESET_WINDOW)
        /\ t - tr[key][1] < BURST_WINDOW
        /\ tr[key][2] >= BURST_LIMIT

\* A limiter that counts the calls it rejects as well.
rate_tracker_counting(tr, ip, tracking_id, t) ==
    LET key == Key(ip, tracking_id)
    IN  IF key \in DOMAIN tr
        THEN IF t - tr[key][1] > RESET_WINDOW
             THEN Put(tr, key, <<t, 1>>)
             ELSE Put(tr, key, <<t, tr[key][2] + 1>>)
        ELSE Put(tr, key, <<t, 1>>)

\* The dict is_rate_limited leaves.
rate_tracker(tr, ip, tracking_id, t) ==
    LET key == Key(ip, tracking_id)
    IN  IF key \in DOMAIN tr
        THEN IF t - tr[key][1] > RESET_WINDOW
             THEN Put(tr, key, <<t, 1>>)
             ELSE IF t - tr[key][1] < BURST_WINDOW /\ tr[key][2] >= BURST_LIMIT
                  THEN tr
                  ELSE Put(tr, key, <<t, tr[key][2] + 1>>)
        ELSE Put(tr, key, <<t, 1>>)

\* A sweep that also removes the entries that are exactly 3600 seconds old.
clean_ip_tracker_eager(tr, t) ==
    LET keep == {k \in DOMAIN tr : ~(t - tr[k][1] >= RESET_WINDOW)}
    IN  [k \in keep |-> tr[k]]

clean_ip_tracker(tr, t) ==
    LET keep == {k \in DOMAIN tr : ~(t - tr[k][1] > RESET_WINDOW)}
    IN  [k \in keep |-> tr[k]]


(***************************************************************************)
(* State.                                                                  *)
(***************************************************************************)
VARIABLES
    variant,        \* "db": click_tracking_db.py, "file": click_tracking_railway.py
    clock,          \* the wall clock read by time.time() and datetime.now()
    ticks,          \* number of clock steps taken (bounded by MaxTicks)
    nreq,           \* number of requests started (bounded by MaxReq)
    faults,         \* number of storage failures injected (bounded by MaxFaults)
    pc,             \* per handler: the statement it is at
    loc,            \* per handler: the local variables of its request
    response,       \* the HTTP response sent by the step just taken, if any
    ip_tracker,     \* per process: the rate limiter's dict
    posts,          \* db: table posts, tracking_id -> row
    click_history,  \* db: table click_history, in insertion order
    stats,          \* db: stats.bot_requests_blocked
    click_data,     \* file: the in-memory dict
    file,           \* file: the content of clicks_correct.json
    accepted,       \* history: per id, click requests completed as accepted
    max_now,        \* history: per id, largest timestamp an accepted click took
    upset,          \* history: per id, whether its post was dropped or replaced,
                    \*          or a click on it ended in an error
    blocked,        \* history: click requests completed as bot since the last
                    \*          reset_all
    probe           \* the calls made on a function taken alone (no server)

vars == << variant, clock, ticks, nreq, faults, pc, loc, response, ip_tracker,
           posts, click_history, stats, click_data, file, accepted, max_now,
           upset, blocked, probe >>

env == << variant, clock, ticks, probe >>
db == << posts, click_history, stats >>
fs == << click_data, file >>
hist == << accepted, max_now, upset, blocked >>

\* The process a handler runs in: one process with threads (file), one
\* process per handler (db).
ProcOf(h) == IF variant = "file" THEN 1 ELSE h

NoRow ==
    [ username |-> "", badge_type |-> "", platform |-> "", post_url |-> "",
      clicks |-> 0, confirmed |-> FALSE, first_click |-> NULL,
      last_click |-> NULL, created_at |-> NULL, confirmed_at |-> NULL ]

NoRecord ==
    [ tracking_id |-> "", timestamp |-> NULL, platform |-> "",
      badge_type |-> "", ip |-> "", user_agent |-> "", is_human |-> FALSE ]

NoView ==
    [ exists |-> FALSE, clicks |-> 0, first_click |-> NULL,
      last_click |-> NULL, history |-> << >> ]

\* What get_analytics gathers, and the body it returns: the post list (per
\* id: clicks, platform, badge_type), the totals, the sums per platform and
\* per badge type, and the values read for bot_requests_blocked, in the
\* order they appear in the body.
NoAggregate ==
    [ posts |-> << >>, total_clicks |-> 0, total_posts |-> 0,
      clicks_by_platform |-> << >>, clicks_by_badge_type |-> << >>,
      bot_requests_blocked |-> << >> ]

NoLoc ==
    [ tracking_id |-> "", ip |-> "", user_agent |-> "", p |-> "", b |-> "",
      post_url |-> "", platform |-> "", username |-> "",
      now |-> NULL, c |-> 0, flag |-> FALSE, row |-> NoRow,
      rec |-> NoRecord, del |-> {}, agg |-> NoAggregate, after_reset |-> FALSE,
      stale |-> FALSE, alone |-> FALSE, pre |-> NoView, kept |-> << >>,
      badge_type |-> "", seen |-> {}, hrows |-> 0, last_time |-> NULL ]

NoResponse ==
    [ h |-> 0, op |-> "", tracking_id |-> "", status |-> 0, location |-> "",
      outcome |-> "", body |-> NoAggregate ]

click_data0 ==
    [ total_clicks |-> 0, posts |-> << >>, click_history |-> << >>,
      bot_requests_blocked |-> 0 ]

NoFile == [ exists |-> FALSE, corrupt |-> FALSE, data |-> click_data0 ]

(***************************************************************************)
(* The initial states: the server has just started on an empty store       *)
(* (Cold), or it is at rest after a few requests that completed within     *)
(* the first second, with no failure:                                      *)
(*   Pending    one generate-tracking-url (db)                             *)
(*   Confirmed  one generate-tracking-url, then its confirm-post (db)      *)
(*   Burst      five human clicks of one client on one tracking id, served *)
(*              by handler 1 (db: the id is unknown, nothing is stored;    *)
(*              file: the post is created and counts them)                 *)
(*   Early      one generate-tracking-url, five human clicks of one client *)
(*              on the pending post, served by handler 1 and not counted,  *)
(*              then the confirm-post (db)                                 *)
(* or it has been at rest for 3600 seconds since the one human click it    *)
(* served (Stale; by handler 1, on the other tracking id: the id is        *)
(* unknown in db, and file created the post and counted the click), or     *)
(* (file) it has just served the 50th human click of one client on that    *)
(* id: five within the first second and then, as the limiter admits them,  *)
(* one every 60 seconds (Full).  Or (db) it holds one confirmed post and    *)
(* a reset_all is in progress, which has so far deleted the rows of the    *)
(* empty click history (MidReset); the budget of requests counts those     *)
(* that start from the initial state on.                                   *)
(***************************************************************************)
Id0 == "a1b2c3d4"
Id1 == "e5f6a7b8"
Ip0 == "203.0.113.7"
Ua0 == "Mozilla/5.0 (X11; Linux x86_64)"

NoProbe == << >>

Rest ==
    /\ ticks = 0
    /\ nreq = 0
    /\ faults = 0
    /\ pc = [h \in Handlers |-> "idle"]
    /\ loc = [h \in Handlers |-> NoLoc]
    /\ response = NoResponse
    /\ upset = [i \in TrackingIds |-> FALSE]
    /\ blocked = 0
    /\ probe = NoProbe

NoTracker == [q \in Handlers |-> << >>]

BurstTracker ==
    [q \in Handlers |-> IF q = 1 THEN (Key(Ip0, Id0) :> <<1, BURST_LIMIT>>) ELSE << >>]

BurstData ==
    [ total_clicks |-> BURST_LIMIT,
      posts |-> (Id0 :> [ clicks |-> BURST_LIMIT, platform |-> "fac",
                          badge_type |-> "g", username |-> "unknown",
                          post_url |-> "", first_click |-> 1, last_click |-> 1,
                          created_at |-> 1 ]),
      click_history |->
          [k \in 1..BURST_LIMIT |->
              [ tracking_id |-> Id0, timestamp |-> 1, platform |-> "fac",
                badge_type |-> "g", ip |-> Take(Ip0, IP_CHARS),
                user_agent |-> Take(Ua0, UA_CHARS_FILE), is_human |-> TRUE ]],
      bot_requests_blocked |-> 0 ]

StaleTracker ==
    [q \in Handlers |-> IF q = 1 THEN (Key(Ip0, Id1) :> <<1, 1>>) ELSE << >>]

StaleData ==
    [ total_clicks |-> 1,
      posts |-> (Id1 :> [ clicks |-> 1, platform |-> "fac",
                          badge_type |-> "g", username |-> "unknown",
                          post_url |-> "", first_click |-> 1, last_click |-> 1,
                          created_at |-> 1 ]),
      click_history |->
          << [ tracking_id |-> Id1, timestamp |-> 1, platform |-> "fac",
               badge_type |-> "g", ip |-> Take(Ip0, IP_CHARS),
               user_agent |-> Take(Ua0, UA_CHARS_FILE), is_human |-> TRUE ] >>,
      bot_requests_blocked |-> 0 ]

FullClock == 1 + BURST_WINDOW * (HISTORY_LIMIT - BURST_LIMIT)

FullStamp(k) ==
    IF k <= BURST_LIMIT THEN 1 ELSE 1 + BURST_WINDOW * (k - BURST_LIMIT)

FullTracker ==
    [q \in Handlers |->
        IF q = 1 THEN (Key(Ip0, Id1) :> <<FullClock, HISTORY_LIMIT>>) ELSE << >>]

FullData ==
    [ total_clicks |-> HISTORY_LIMIT,
      posts |-> (Id1 :> [ clicks |-> HISTORY_LIMIT, platform |-> "fac",
                          badge_type |-> "g", username |-> "unknown",
                          post_url |-> "", first_click |-> 1,
                          last_click |-> FullClock, created_at |-> 1 ]),
      click_history |->
          [k \in 1..HISTORY_LIMIT |->
              [ tracking_id |-> Id1, timestamp |-> FullStamp(k),
                platform |-> "fac", badge_type |-> "g",
                ip |-> Take(Ip0, IP_CHARS),
                user_agent |-> Take(Ua0, UA_CHARS_FILE), is_human |-> TRUE ]],
      bot_requests_blocked |-> 0 ]

PendingPosts ==
    (Id0 :> [ NoRow EXCEPT !.username = "unknown", !.badge_type = "gold",
                           !.platform = "facebook", !.created_at = 1 ])

ConfirmedPosts ==
    (Id0 :> [ NoRow EXCEPT !.username = "unknown", !.badge_type = "gold",
                           !.platform = "twitter",
                           !.post_url = "https://x.com/p/1",
                           !.confirmed = TRUE, !.created_at = 1,
                           !.confirmed_at = 1 ])

\* Handler 1 is serving a reset_all, alone so far: its DELETE FROM
\* click_history has found the table empty.
MidReset ==
    /\ ticks = 0
    /\ nreq = 0
    /\ faults = 0
    /\ pc = [h \in Handlers |-> IF h = 1 THEN "reset_posts" ELSE "idle"]
    /\ loc = [h \in Handlers |->
                IF h = 1 THEN [NoLoc EXCEPT !.alone = TRUE] ELSE NoLoc]
    /\ response = NoResponse
    /\ upset = [i \in TrackingIds |-> FALSE]
    /\ blocked = 0
    /\ probe = NoProbe

InitDb ==
    /\ variant = "db"
    /\ click_history = << >>
    /\ stats = 0
    /\ click_data = click_data0
    /\ file = NoFile
    /\ accepted = [i \in TrackingIds |-> 0]
    /\ max_now = [i \in TrackingIds |-> NULL]
    /\ \/ Rest /\ posts = << >> /\ ip_tracker = NoTracker /\ clock = 1
       \/ Rest /\ posts = PendingPosts /\ ip_tracker = NoTracker /\ clock = 1
       \/ Rest /\ posts = ConfirmedPosts /\ ip_tracker = NoTracker /\ clock = 1
       \/ Rest /\ posts = << >> /\ ip_tracker = BurstTracker /\ clock = 1
       \/ Rest /\ posts = ConfirmedPosts /\ ip_tracker = BurstTracker /\ clock = 1
       \/ Rest /\ posts = << >> /\ ip_tracker = StaleTracker
               /\ clock = 1 + RESET_WINDOW
       \/ MidReset /\ posts = ConfirmedPosts /\ ip_tracker = NoTracker
                   /\ clock = 1

InitFile ==
    /\ variant = "file"
    /\ Rest
    /\ posts = << >>
    /\ click_history = << >>
    /\ stats = 0
    /\ \/ /\ click_data = click_data0
          /\ file = NoFile
          /\ ip_tracker = NoTracker
          /\ clock = 1
          /\ accepted = [i \in TrackingIds |-> 0]
          /\ max_now = [i \in TrackingIds |-> NULL]
       \/ /\ click_data = BurstData
          /\ file = [ exists |-> TRUE, corrupt |-> FALSE, data |-> BurstData ]
          /\ ip_tracker = BurstTracker
          /\ clock = 1
          /\ accepted = [i \in TrackingIds |-> IF i = Id0 THEN BURST_LIMIT ELSE 0]
          /\ max_now = [i \in TrackingIds |-> IF i = Id0 THEN 1 ELSE NULL]
       \/ /\ click_data = StaleData
          /\ file = [ exists |-> TRUE, corrupt |-> FALSE, data |-> StaleData ]
          /\ ip_tracker = StaleTracker
          /\ clock = 1 + RESET_WINDOW
          /\ accepted = [i \in TrackingIds |-> IF i = Id1 THEN 1 ELSE 0]
          /\ max_now = [i \in TrackingIds |-> IF i = Id1 THEN 1 ELSE NULL]
       \/ /\ click_data = FullData
          /\ file = [ exists |-> TRUE, corrupt |-> FALSE, data |-> FullData ]
          /\ ip_tracker = FullTracker
          /\ clock = FullClock
          /\ accepted = [i \in TrackingIds |-> IF i = Id1 THEN HISTORY_LIMIT ELSE 0]
          /\ max_now = [i \in TrackingIds |-> IF i = Id1 THEN FullClock ELSE NULL]

Init == InitDb \/ InitFile

(***************************************************************************)
(* What a request sees of one post: used to compare the store before and   *)
(* after a request.                                                        *)
(***************************************************************************)
Posts == IF variant = "file" THEN click_data.posts ELSE posts
History == IF variant = "file" THEN click_data.click_history ELSE click_history
BotCounter == IF variant = "file" THEN click_data.bot_requests_blocked ELSE stats

ClicksOf(i) == IF i \in DOMAIN Posts THEN Posts[i].clicks ELSE 0
HistoryOf(i) == SelectSeq(History, LAMBDA r : r.tracking_id = i)

View(i) ==
    IF i \in DOMAIN Posts
    THEN [ exists |-> TRUE, clicks |-> Posts[i].clicks,
           first_click |-> Posts[i].first_click,
           last_click |-> Posts[i].last_click, history |-> History ]
    ELSE [ NoView EXCEPT !.history = History ]

Idle == \A h \in Handlers : pc[h] = "idle"

Max(a, b) == IF a > b THEN a ELSE b

(***************************************************************************)
(* Aggregation: SUM(clicks) over a set of rows, SUM(clicks) ... GROUP BY a *)
(* column, and the columns of a row that the aggregates are taken from.    *)
(***************************************************************************)
RECURSIVE SumClicks(_, _)
SumClicks(rows, S) ==
    IF S = {} THEN 0
    ELSE LET i == CHOOSE x \in S : TRUE
         IN  rows[i].clicks + SumClicks(rows, S \ {i})

GroupBy(rows, S, col) ==
    [g \in {rows[i][col] : i \in S} |->
        SumClicks(rows, {i \in S : rows[i][col] = g})]

Listed(row) ==
    [ clicks |-> row.clicks, platform |-> row.platform,
      badge_type |-> row.badge_type ]

(***************************************************************************)
(* Common steps.                                                           *)
(***************************************************************************)
Tick ==
    /\ ticks < MaxTicks
    /\ clock' = clock + 1
    /\ ticks' = ticks + 1
    /\ response' = NoResponse
    /\ UNCHANGED << variant, probe, nreq, faults, pc, loc, ip_tracker, db, fs, hist >>

\* A storage call: it succeeds, or (while the budget of failures lasts) it
\* raises.
Storage(ok) ==
    /\ ok \/ faults < MaxFaults
    /\ faults' = IF ok THEN faults ELSE faults + 1

\* A request starts on an idle handler.
Begin(h) ==
    /\ pc[h] = "idle"
    /\ nreq < MaxReq
    /\ nreq' = nreq + 1

\* The locals of the handlers once h has started with locals l.  alone: no
\* other request is in progress; it is withdrawn from every request in
\* progress.  pre: what a click that starts alone finds of its post.
Entered(h, l, click) ==
    [g \in Handlers |->
        IF g = h
        THEN [ l EXCEPT !.alone = Idle,
                        !.pre = IF Idle /\ click THEN View(l.tracking_id)
                                ELSE NoView ]
        ELSE [ loc[g] EXCEPT !.alone = FALSE, !.pre = NoView ]]

\* The locals of the handlers once h has started and returned in one step.
Passed(h) ==
    [g \in Handlers |->
        IF g = h THEN NoLoc
        ELSE [ loc[g] EXCEPT !.alone = FALSE, !.pre = NoView ]]

\* The locals of the handlers once h has returned.
Left(h) == [loc EXCEPT ![h] = NoLoc]

\* The handler goes on to its next statement.
Goto(h, label) ==
    /\ pc' = [pc EXCEPT ![h] = label]
    /\ response' = NoResponse

\* The handler sends its response and becomes idle.
Reply(h, op, i, r, outcome) ==
    /\ pc' = [pc EXCEPT ![h] = "idle"]
    /\ response' = [ h |-> h, op |-> op, tracking_id |-> i,
                     status |-> r.status, location |-> r.location,
                     outcome |-> outcome, body |-> NoAggregate ]

\* get_analytics returns the aggregate it gathered.
AnalyticsReply(h, body) ==
    /\ pc' = [pc EXCEPT ![h] = "idle"]
    /\ response' = [ h |-> h, op |-> "analytics", tracking_id |-> "",
                     status |-> 200, location |-> "", outcome |-> "aggregate",
                     body |-> body ]

\* The reset_all request has just completed, with no request in progress.
JustReset == response.op = "reset" /\ response.outcome = "reset" /\ Idle

\* track_click returns: the response, and the record of what the request
\* was (now: the timestamp it took, for an accepted click).
ClickReply(h, i, r, outcome, now) ==
    /\ Reply(h, "click", i, r, outcome)
    /\ accepted' = IF outcome = "accepted"
                   THEN [accepted EXCEPT ![i] = @ + 1] ELSE accepted
    /\ max_now' = IF outcome = "accepted"
                  THEN [max_now EXCEPT ![i] = Max(@, now)] ELSE max_now
    /\ upset' = IF outcome = "error" THEN [upset EXCEPT ![i] = TRUE] ELSE upset
    /\ blocked' = IF outcome = "bot" THEN blocked + 1 ELSE blocked

\* a JSON body, and an error status
Ok200 == [ status |-> 200, location |-> "" ]
Http(code) == [ status |-> code, location |-> "" ]

\* the framework's answer to an exception that nothing catches
InternalServerError == [ status |-> 500, location |-> "" ]

\* RedirectResponse(url=FINAL_DESTINATION, status_code=302)
Redirect == [ status |-> 302, location |-> FINAL_DESTINATION ]
\* the except branch of track_click
DbErrorRedirect == [ status |-> 302, location |-> FINAL_DESTINATION ]
FileErrorRedirect == [ status |-> 302, location |-> FINAL_DESTINATION ]

(***************************************************************************)
(* The relational variant: src/click_tracking_db.py                        *)
(*                                                                         *)
(* get_db_connection opens a connection per request; psycopg2 starts the   *)
(* transaction at the first statement.  An UPDATE or DELETE locks its rows *)
(* until the transaction ends, and a statement that needs a locked row     *)
(* waits; the writes of a transaction become visible at its commit, and an *)
(* exception rolls them back.                                              *)
(***************************************************************************)
RowHeld(g, i) ==
    \/ pc[g] \in {"insert", "commit", "confirm_commit", "gen_commit"}
         /\ loc[g].tracking_id = i
    \/ pc[g] \in {"reset_rows", "reset_stats", "reset_commit"}
         /\ i \in loc[g].del

RowLockedByOther(h, i) == \E g \in Handlers \ {h} : RowHeld(g, i)

StatsLockedByOther(h) == \E g \in Handlers \ {h} : pc[g] = "reset_commit"

\* The rows of click_history that the DELETE FROM click_history of a
\* reset_all in progress has locked: those it saw, which are the first
\* hrows of the table until it commits.
HistoryHeld(g) ==
    IF pc[g] \in {"reset_posts", "reset_rows", "reset_stats", "reset_commit"}
    THEN 1..Min(loc[g].hrows, Len(click_history)) ELSE {}

\* The order in which a scan of posts meets the rows.
HeapOrder == << "a1b2c3d4", "e5f6a7b8" >>

\* The first row of S that a scan meets.
NextRow(S) ==
    HeapOrder[CHOOSE k \in 1..Len(HeapOrder) :
                 /\ HeapOrder[k] \in S
                 /\ \A j \in 1..(k - 1) : HeapOrder[j] \notin S]

\* Handler h is at a statement that waits for a lock that g holds.  Only
\* reset_all waits while it holds locks itself: at a row of posts that
\* another transaction has locked, and, once it has deleted the posts, at
\* the click_history rows of these posts (ON DELETE CASCADE) that another
\* reset_all has locked.
WaitsFor(h, g) ==
    /\ g # h
    /\ \/ /\ pc[h] = "reset_rows" /\ loc[h].seen # {}
          /\ RowHeld(g, NextRow(loc[h].seen))
       \/ /\ pc[h] = "reset_rows" /\ loc[h].seen = {}
          /\ \E k \in HistoryHeld(g) : click_history[k].tracking_id \in loc[h].del
       \/ /\ pc[h] = "reset_history"
          /\ HistoryHeld(g) # {}
       \/ /\ pc[h] = "reset_stats"
          /\ pc[g] = "reset_commit"
       \/ /\ pc[h] = "bot_incr"
          /\ pc[g] = "reset_commit"
       \/ /\ pc[h] \in {"update", "confirm_update"}
          /\ loc[h].tracking_id \in DOMAIN posts
          /\ RowHeld(g, loc[h].tracking_id)
       \/ /\ pc[h] = "gen_insert"
          /\ RowHeld(g, loc[h].tracking_id)

WaitsOn(h) == {g \in Handlers : WaitsFor(h, g)}

\* The handlers that h waits for, directly or through others.
RECURSIVE WaitChain(_, _)
WaitChain(S, n) ==
    IF n = 0 THEN S
    ELSE WaitChain(S \cup UNION {WaitsOn(g) : g \in S}, n - 1)

\* A database that detects no deadlock.
Undetected(h) == FALSE

\* The lock waits form a cycle through h: the database's deadlock detector
\* will fail the statement of one of the transactions in the cycle.
Deadlocked(h) == h \in WaitChain(WaitsOn(h), NumHandlers)

\* UPDATE posts SET clicks = clicks + 1, last_click = now,
\*                  first_click = COALESCE(first_click, now)
ClickedRow(row, now) ==
    [ row EXCEPT !.clicks = row.clicks + 1,
                 !.last_click = now,
                 !.first_click = IF row.first_click = NULL THEN now
                                 ELSE row.first_click ]

\* The row INSERTed INTO click_history; its timestamp defaults to NOW().
DbClickRecord(l, t) ==
    [ tracking_id |-> l.tracking_id, timestamp |-> t, platform |-> l.p,
      badge_type |-> l.b,
      ip |-> IF l.ip = None \/ l.ip = "" THEN "unknown" ELSE Take(l.ip, IP_CHARS),
      user_agent |-> Take(l.user_agent, UA_CHARS_DB), is_human |-> TRUE ]

\* A track_click that looks at the post first and leaves the limiter out
\* for a tracking id that is unknown or not confirmed.
DbTrackStartGated(h, tracking_id, user_agent, ip, p, b) ==
    LET l == [ NoLoc EXCEPT !.tracking_id = tracking_id, !.ip = ip,
                            !.user_agent = user_agent, !.p = p, !.b = b ]
        tr == clean_ip_tracker(ip_tracker[ProcOf(h)], clock)
        open == tracking_id \in DOMAIN posts /\ posts[tracking_id].confirmed
    IN
    /\ variant = "db"
    /\ Begin(h)
    /\ IF ip = None
       THEN /\ ClickReply(h, tracking_id, DbErrorRedirect, "error", NULL)
            /\ loc' = Passed(h)
            /\ UNCHANGED ip_tracker
       ELSE IF IsBot[user_agent]
       THEN /\ Goto(h, "bot_incr")
            /\ loc' = Entered(h, l, TRUE)
            /\ ip_tracker' = [ip_tracker EXCEPT ![ProcOf(h)] = tr]
            /\ UNCHANGED hist
       ELSE IF open /\ rate_limited(tr, ip, tracking_id, clock)
       THEN /\ ClickReply(h, tracking_id, Redirect, "rate_limited", NULL)
            /\ loc' = Passed(h)
            /\ ip_tracker' = [ip_tracker EXCEPT ![ProcOf(h)] = tr]
       ELSE /\ Goto(h, "select")
            /\ loc' = Entered(h, l, TRUE)
            /\ ip_tracker' = [ip_tracker EXCEPT ![ProcOf(h)] =
                                 IF open THEN rate_tracker(tr, ip, tracking_id, clock)
                                 ELSE tr]
            /\ UNCHANGED hist
    /\ UNCHANGED << env, faults, db, fs >>

\* track_click, up to the lookup: the headers, clean_ip_tracker,
\* is_bot_request, is_rate_limited.
DbTrackStart(h, tracking_id, user_agent, ip, p, b) ==
    LET l == [ NoLoc EXCEPT !.tracking_id = tracking_id, !.ip = ip,
                            !.user_agent = user_agent, !.p = p, !.b = b ]
        tr == clean_ip_tracker(ip_tracker[ProcOf(h)], clock)
    IN
    /\ variant = "db"
    /\ Begin(h)
    /\ IF ip = None
       THEN \* request.client is None: AttributeError, caught
            /\ ClickReply(h, tracking_id, DbErrorRedirect, "error", NULL)
            /\ loc' = Passed(h)
            /\ UNCHANGED ip_tracker
       ELSE IF IsBot[user_agent]
       THEN /\ Goto(h, "bot_incr")
            /\ loc' = Entered(h, l, TRUE)
            /\ ip_tracker' = [ip_tracker EXCEPT ![ProcOf(h)] = tr]
            /\ UNCHANGED hist
       ELSE IF rate_limited(tr, ip, tracking_id, clock)
       THEN /\ ClickReply(h, tracking_id, Redirect, "rate_limited", NULL)
            /\ loc' = Passed(h)
            /\ ip_tracker' = [ip_tracker EXCEPT ![ProcOf(h)] =
                                 rate_tracker(tr, ip, tracking_id, clock)]
       ELSE /\ Goto(h, "select")
            /\ loc' = Entered(h, l, TRUE)
            /\ ip_tracker' = [ip_tracker EXCEPT ![ProcOf(h)] =
                                 rate_tracker(tr, ip, tracking_id, clock)]
            /\ UNCHANGED hist
    /\ UNCHANGED << env, faults, db, fs >>

\* increment_bot_counter: one UPDATE in a transaction of its own.
DbBotIncrement(h) ==
    /\ pc[h] = "bot_incr"
    /\ ~StatsLockedByOther(h)
    /\ \E ok \in BOOLEAN :
         /\ Storage(ok)
         /\ stats' = IF ok THEN stats + 1 ELSE stats
         /\ IF ok THEN ClickReply(h, loc[h].tracking_id, Redirect, "bot", NULL)
                  ELSE ClickReply(h, loc[h].tracking_id, DbErrorRedirect,
                                  "error", NULL)
    /\ loc' = Left(h)
    /\ UNCHANGED << env, nreq, ip_tracker, posts, click_history, fs >>

\* SELECT clicks, confirmed FROM posts WHERE tracking_id = %s, the test of
\* the row, and now = datetime.now().
DbTrackSelect(h) ==
    LET i == loc[h].tracking_id IN
    /\ pc[h] = "select"
    /\ \E ok \in BOOLEAN :
         /\ Storage(ok)
         /\ IF ~ok
            THEN /\ ClickReply(h, i, DbErrorRedirect, "error", NULL)
                 /\ loc' = Left(h)
            ELSE IF i \notin DOMAIN posts \/ ~posts[i].confirmed
            THEN /\ ClickReply(h, i, Redirect, "unconfirmed", NULL)
                 /\ loc' = Left(h)
            ELSE /\ Goto(h, "update")
                 /\ loc' = [loc EXCEPT ![h].now = clock]
                 /\ UNCHANGED hist
    /\ UNCHANGED << env, nreq, ip_tracker, db, fs >>

\* UPDATE posts ... RETURNING clicks, and fetchone()['clicks'].
DbTrackUpdate(h) ==
    LET i == loc[h].tracking_id IN
    /\ pc[h] = "update"
    /\ i \in DOMAIN posts => ~RowLockedByOther(h, i)
    /\ \E ok \in BOOLEAN :
         /\ Storage(ok)
         /\ IF ~ok \/ i \notin DOMAIN posts
            THEN \* a storage error, or no row: fetchone() is None, TypeError
                 /\ ClickReply(h, i, DbErrorRedirect, "error", NULL)
                 /\ loc' = Left(h)
            ELSE /\ Goto(h, "insert")
                 /\ loc' = [loc EXCEPT ![h].row = ClickedRow(posts[i], loc[h].now)]
                 /\ UNCHANGED hist
    /\ UNCHANGED << env, nreq, ip_tracker, db, fs >>

\* INSERT INTO click_history
DbTrackInsert(h) ==
    /\ pc[h] = "insert"
    /\ \E ok \in BOOLEAN :
         /\ Storage(ok)
         /\ IF ~ok
            THEN /\ ClickReply(h, loc[h].tracking_id, DbErrorRedirect, "error", NULL)
                 /\ loc' = Left(h)
            ELSE /\ Goto(h, "commit")
                 /\ loc' = [loc EXCEPT ![h].rec = DbClickRecord(loc[h], clock)]
                 /\ UNCHANGED hist
    /\ UNCHANGED << env, nreq, ip_tracker, db, fs >>

\* What the click's transaction writes at its commit.
DbClickCommitted(h) ==
    [ posts |-> Put(posts, loc[h].tracking_id, loc[h].row),
      click_history |-> Append(click_history, loc[h].rec) ]

\* conn.commit()
DbTrackCommit(h) ==
    LET i == loc[h].tracking_id IN
    /\ pc[h] = "commit"
    /\ \E ok \in BOOLEAN :
         /\ Storage(ok)
         /\ IF ~ok
            THEN /\ ClickReply(h, i, DbErrorRedirect, "error", NULL)
                 /\ UNCHANGED << posts, click_history >>
            ELSE /\ ClickReply(h, i, Redirect, "accepted", loc[h].now)
                 /\ posts' = DbClickCommitted(h).posts
                 /\ click_history' = DbClickCommitted(h).click_history
    /\ loc' = Left(h)
    /\ UNCHANGED << env, nreq, ip_tracker, stats, fs >>

\* a row that is confirmed from its creation
BornConfirmed(username, badge_type, platform, t) ==
    [ NoRow EXCEPT !.username = username, !.badge_type = badge_type,
                   !.platform = platform, !.confirmed = TRUE,
                   !.created_at = t ]

\* The row INSERTed INTO posts by generate_tracking_url; clicks defaults to
\* 0 and created_at to NOW().
PendingRow(username, badge_type, platform, t) ==
    [ NoRow EXCEPT !.username = username, !.badge_type = badge_type,
                   !.platform = platform, !.confirmed = FALSE,
                   !.created_at = t ]

\* generate_tracking_url: tracking_id is the first 8 hex digits of an md5,
\* any id, one in use included; the connection.
DbGenerate(h, platform, badge_type, username, tracking_id) ==
    LET l == [ NoLoc EXCEPT !.tracking_id = tracking_id,
                            !.platform = platform,
                            !.badge_type = badge_type,
                            !.username = username ]
    IN
    /\ variant = "db"
    /\ Begin(h)
    /\ \E ok \in BOOLEAN :
         /\ Storage(ok)
         /\ IF ~ok
            THEN /\ Reply(h, "generate", tracking_id, Http(500), "error")
                 /\ loc' = Passed(h)
            ELSE /\ Goto(h, "gen_insert")
                 /\ loc' = Entered(h, l, FALSE)
    /\ UNCHANGED << env, ip_tracker, db, fs, hist >>

\* INSERT INTO posts: it waits for a transaction that has inserted or
\* deleted a row of this id and has not ended.
DbGenerateInsert(h) ==
    LET i == loc[h].tracking_id IN
    /\ pc[h] = "gen_insert"
    /\ ~RowLockedByOther(h, i)
    /\ \E ok \in BOOLEAN :
         /\ Storage(ok)
         /\ IF ~ok
            THEN /\ Reply(h, "generate", i, Http(500), "error")
                 /\ loc' = Left(h)
            ELSE IF i \in DOMAIN posts
            THEN \* duplicate key: IntegrityError
                 /\ Reply(h, "generate", i, Http(500), "conflict")
                 /\ loc' = Left(h)
            ELSE /\ Goto(h, "gen_commit")
                 /\ loc' = [loc EXCEPT ![h].row =
                               PendingRow(loc[h].username, loc[h].badge_type,
                                          loc[h].platform, clock)]
    /\ UNCHANGED << env, nreq, ip_tracker, db, fs, hist >>

DbGenerateCommit(h) ==
    LET i == loc[h].tracking_id IN
    /\ pc[h] = "gen_commit"
    /\ \E ok \in BOOLEAN :
         /\ Storage(ok)
         /\ IF ~ok
            THEN /\ Reply(h, "generate", i, Http(500), "error")
                 /\ UNCHANGED posts
            ELSE /\ Reply(h, "generate", i, Ok200, "created")
                 /\ posts' = Put(posts, i, loc[h].row)
    /\ loc' = Left(h)
    /\ UNCHANGED << env, nreq, ip_tracker, click_history, stats, fs, hist >>

\* a confirmation that starts the post's counting afresh
ConfirmedAfresh(row, post_url, platform, username, t) ==
    [ row EXCEPT !.post_url = post_url, !.confirmed = TRUE,
                 !.confirmed_at = t, !.platform = platform,
                 !.clicks = 0, !.first_click = NULL, !.last_click = NULL ]

\* UPDATE posts SET post_url, confirmed = TRUE, confirmed_at, platform, and
\* the UPDATE of username when one is given and is not 'unknown'.
ConfirmedRow(row, post_url, platform, username, t) ==
    [ row EXCEPT !.post_url = post_url, !.confirmed = TRUE,
                 !.confirmed_at = t, !.platform = platform,
                 !.username = IF username # "" /\ username # "unknown"
                              THEN username ELSE row.username ]

\* the HTTPException(status_code=500) of "except Exception"
ConfirmServerError == Http(500)

\* raise HTTPException(status_code=404), re-raised by "except HTTPException"
ConfirmNotFound == Http(404)

\* confirm_post: username "" stands for an absent (None) or empty username;
\* the connection.
DbConfirm(h, tracking_id, post_url, platform, username) ==
    LET l == [ NoLoc EXCEPT !.tracking_id = tracking_id,
                            !.post_url = post_url,
                            !.platform = platform,
                            !.username = username ]
    IN
    /\ variant = "db"
    /\ Begin(h)
    /\ \E ok \in BOOLEAN :
         /\ Storage(ok)
         /\ IF ~ok
            THEN /\ Reply(h, "confirm", tracking_id, Http(500), "error")
                 /\ loc' = Passed(h)
            ELSE /\ Goto(h, "confirm_update")
                 /\ loc' = Entered(h, l, FALSE)
    /\ UNCHANGED << env, ip_tracker, db, fs, hist >>

\* The UPDATEs of confirm_post: they wait for the row when another
\* transaction has locked it.
DbConfirmUpdate(h) ==
    LET i == loc[h].tracking_id IN
    /\ pc[h] = "confirm_update"
    /\ i \in DOMAIN posts => ~RowLockedByOther(h, i)
    /\ \E ok \in BOOLEAN :
         /\ Storage(ok)
         /\ IF ~ok
            THEN /\ Reply(h, "confirm", i, Http(500), "error")
                 /\ loc' = Left(h)
            ELSE IF i \notin DOMAIN posts
            THEN /\ Reply(h, "confirm", i, ConfirmNotFound, "not_found")
                 /\ loc' = Left(h)
            ELSE /\ Goto(h, "confirm_commit")
                 /\ loc' = [loc EXCEPT ![h].row =
                               ConfirmedRow(posts[i], loc[h].post_url,
                                            loc[h].platform, loc[h].username,
                                            clock)]
    /\ UNCHANGED << env, nreq, ip_tracker, db, fs, hist >>

DbConfirmCommit(h) ==
    LET i == loc[h].tracking_id IN
    /\ pc[h] = "confirm_commit"
    /\ \E ok \in BOOLEAN :
         /\ Storage(ok)
         /\ IF ~ok
            THEN /\ Reply(h, "confirm", i, Http(500), "error")
                 /\ UNCHANGED posts
            ELSE /\ Reply(h, "confirm", i, Ok200, "confirmed")
                 /\ posts' = Put(posts, i, loc[h].row)
    /\ loc' = Left(h)
    /\ UNCHANGED << env, nreq, ip_tracker, click_history, stats, fs, hist >>

\* reset_all: the connection.
DbReset(h) ==
    /\ variant = "db"
    /\ Begin(h)
    /\ \E ok \in BOOLEAN :
         /\ Storage(ok)
         /\ IF ~ok
            THEN /\ Reply(h, "reset", "", Http(500), "error")
                 /\ loc' = Passed(h)
            ELSE /\ Goto(h, "reset_history")
                 /\ loc' = Entered(h, NoLoc, FALSE)
    /\ UNCHANGED << env, ip_tracker, db, fs, hist >>

\* A statement of reset_all fails: the transaction is rolled back.
ResetFailed(h) ==
    /\ Reply(h, "reset", "", Http(500), "error")
    /\ loc' = Left(h)

\* DELETE FROM click_history: it locks the rows it sees, and waits at the
\* first of them that another transaction has locked.
DbResetHistory(h) ==
    /\ pc[h] = "reset_history"
    /\ \A g \in Handlers \ {h} : HistoryHeld(g) = {}
    /\ \E ok \in BOOLEAN :
         /\ Storage(ok)
         /\ IF ~ok
            THEN ResetFailed(h)
            ELSE /\ Goto(h, "reset_posts")
                 /\ loc' = [loc EXCEPT ![h].hrows = Len(click_history)]
    /\ UNCHANGED << env, nreq, ip_tracker, db, fs, hist >>

\* DELETE FROM posts starts: the rows it sees are those committed by now.
DbResetScan(h) ==
    /\ pc[h] = "reset_posts"
    /\ Goto(h, "reset_rows")
    /\ loc' = [loc EXCEPT ![h].seen = DOMAIN posts]
    /\ UNCHANGED << env, nreq, faults, ip_tracker, db, fs, hist >>

\* DELETE FROM posts goes on to the next row: it waits while another
\* transaction has it locked, and locks it.
DbResetPosts(h) ==
    /\ pc[h] = "reset_rows"
    /\ loc[h].seen # {}
    /\ LET i == NextRow(loc[h].seen) IN
         /\ ~RowLockedByOther(h, i)
         /\ \E ok \in BOOLEAN :
              /\ Storage(ok)
              /\ IF ~ok
                 THEN ResetFailed(h)
                 ELSE /\ Goto(h, "reset_rows")
                      /\ loc' = [loc EXCEPT
                                    ![h].seen = @ \ {i},
                                    ![h].del = @ \cup ({i} \cap DOMAIN posts)]
    /\ UNCHANGED << env, nreq, ip_tracker, db, fs, hist >>

\* The end of DELETE FROM posts: ON DELETE CASCADE deletes the
\* click_history rows of the deleted posts, and waits for those that
\* another reset_all has locked.
DbResetCascade(h) ==
    /\ pc[h] = "reset_rows"
    /\ loc[h].seen = {}
    /\ \A g \in Handlers \ {h} :
          \A k \in HistoryHeld(g) : click_history[k].tracking_id \notin loc[h].del
    /\ Goto(h, "reset_stats")
    /\ UNCHANGED << env, nreq, faults, loc, ip_tracker, db, fs, hist >>

\* UPDATE stats SET bot_requests_blocked = 0
DbResetStats(h) ==
    /\ pc[h] = "reset_stats"
    /\ ~StatsLockedByOther(h)
    /\ \E ok \in BOOLEAN :
         /\ Storage(ok)
         /\ IF ~ok
            THEN ResetFailed(h)
            ELSE /\ Goto(h, "reset_commit")
                 /\ UNCHANGED loc
    /\ UNCHANGED << env, nreq, ip_tracker, db, fs, hist >>

\* The lock waits form a cycle through h: the database fails h's statement
\* (deadlock detected), and reset_all answers 500.
DbDeadlock(h) ==
    /\ pc[h] = "reset_rows"
    /\ Deadlocked(h)
    /\ ResetFailed(h)
    /\ UNCHANGED << env, nreq, faults, ip_tracker, db, fs, hist >>

\* The rows of a table that are left once those of the posts in del are
\* deleted.
Without(f, del) == [i \in DOMAIN f \ del |-> f[i]]

\* The posts in del are gone.
Dropped(del) == [i \in TrackingIds |-> upset[i] \/ i \in del]

\* The locals of the handlers once the posts in del are deleted for good: a
\* DELETE FROM posts that waited for one of them finds it gone.
Skipped(l, del) ==
    [g \in Handlers |->
        IF pc[g] = "reset_rows" THEN [l[g] EXCEPT !.seen = @ \ del] ELSE l[g]]

\* conn.commit(), then ip_tracker = {} in the process that served the reset.
DbResetCommit(h) ==
    LET del == loc[h].del
        left == SubSeq(click_history,
                       Min(loc[h].hrows, Len(click_history)) + 1,
                       Len(click_history))
    IN
    /\ pc[h] = "reset_commit"
    /\ \E ok \in BOOLEAN :
         /\ Storage(ok)
         /\ IF ~ok
            THEN /\ Reply(h, "reset", "", Http(500), "error")
                 /\ loc' = Left(h)
                 /\ UNCHANGED << ip_tracker, db, upset, blocked >>
            ELSE /\ Reply(h, "reset", "", Ok200, "reset")
                 /\ posts' = Without(posts, del)
                 /\ click_history' =
                       SelectSeq(left, LAMBDA r : r.tracking_id \notin del)
                 /\ stats' = 0
                 /\ ip_tracker' = [ip_tracker EXCEPT ![ProcOf(h)] = << >>]
                 /\ loc' = Skipped(Left(h), del)
                 /\ upset' = Dropped(del)
                 /\ blocked' = 0
    /\ UNCHANGED << env, nreq, fs, accepted, max_now >>

\* The rows WHERE confirmed = TRUE that a statement sees.
ConfirmedIds == {i \in DOMAIN posts : posts[i].confirmed}

\* get_analytics: the connection and the first SELECT, the confirmed posts.
\* Every statement of the transaction sees what is committed when it runs
\* (READ COMMITTED).
DbAnalytics(h) ==
    /\ variant = "db"
    /\ Begin(h)
    /\ \E ok \in BOOLEAN :
         /\ Storage(ok)
         /\ IF ~ok
            THEN /\ Reply(h, "analytics", "", Http(500), "error")
                 /\ loc' = Passed(h)
            ELSE /\ Goto(h, "an_totals")
                 /\ loc' = Entered(h,
                       [ NoLoc EXCEPT !.after_reset = JustReset,
                                      !.agg.posts = [i \in ConfirmedIds |->
                                                        Listed(posts[i])] ],
                       FALSE)
    /\ UNCHANGED << env, ip_tracker, db, fs, hist >>

\* SELECT COUNT(*) as total_posts, SUM(clicks) as total_clicks
DbAnalyticsTotals(h) ==
    /\ pc[h] = "an_totals"
    /\ loc' = [loc EXCEPT ![h].agg.total_posts = Cardinality(ConfirmedIds),
                          ![h].agg.total_clicks = SumClicks(posts, ConfirmedIds)]
    /\ Goto(h, "an_platform")
    /\ UNCHANGED << env, nreq, faults, ip_tracker, db, fs, hist >>

\* SELECT platform, SUM(clicks) ... GROUP BY platform
DbAnalyticsPlatform(h) ==
    /\ pc[h] = "an_platform"
    /\ loc' = [loc EXCEPT ![h].agg.clicks_by_platform =
                              GroupBy(posts, ConfirmedIds, "platform")]
    /\ Goto(h, "an_badge")
    /\ UNCHANGED << env, nreq, faults, ip_tracker, db, fs, hist >>

\* SELECT badge_type, SUM(clicks) ... GROUP BY badge_type
DbAnalyticsBadge(h) ==
    /\ pc[h] = "an_badge"
    /\ loc' = [loc EXCEPT ![h].agg.clicks_by_badge_type =
                              GroupBy(posts, ConfirmedIds, "badge_type")]
    /\ Goto(h, "an_pending")
    /\ UNCHANGED << env, nreq, faults, ip_tracker, db, fs, hist >>

\* The recent clicks, then SELECT COUNT(*) FROM posts WHERE confirmed =
\* FALSE and cur.fetchone()[0]: the cursor is a RealDictCursor, its row is a
\* dict keyed by column name, and [0] raises KeyError.  The transaction is
\* rolled back and "except Exception" answers 500; the response with the
\* aggregate and the three get_bot_counter() calls is never built.
DbAnalyticsPending(h) ==
    /\ pc[h] = "an_pending"
    /\ Reply(h, "analytics", "", Http(500), "error")
    /\ loc' = Left(h)
    /\ UNCHANGED << env, nreq, faults, ip_tracker, db, fs, hist >>

NextDb ==
    \/ \E h \in Handlers, i \in TrackingIds, ua \in UserAgents,
          ip \in IPs \cup {None}, p \in PCodes, b \in BCodes :
          DbTrackStart(h, i, ua, ip, p, b)
    \/ \E h \in Handlers : DbBotIncrement(h)
    \/ \E h \in Handlers : DbTrackSelect(h)
    \/ \E h \in Handlers : DbTrackUpdate(h)
    \/ \E h \in Handlers : DbTrackInsert(h)
    \/ \E h \in Handlers : DbTrackCommit(h)
    \/ \E h \in Handlers, pl \in GenPlatforms, bt \in BadgeTypes,
          u \in GenUsernames, i \in TrackingIds :
          DbGenerate(h, pl, bt, u, i)
    \/ \E h \in Handlers : DbGenerateInsert(h)
    \/ \E h \in Handlers : DbGenerateCommit(h)
    \/ \E h \in Handlers, i \in TrackingIds, url \in PostUrls,
          pl \in ConfirmPlatforms, u \in ConfirmUsernames :
          DbConfirm(h, i, url, pl, u)
    \/ \E h \in Handlers : DbConfirmUpdate(h)
    \/ \E h \in Handlers : DbConfirmCommit(h)
    \/ \E h \in Handlers : DbReset(h)
    \/ \E h \in Handlers : DbResetHistory(h)
    \/ \E h \in Handlers : DbResetScan(h)
    \/ \E h \in Handlers : DbResetPosts(h)
    \/ \E h \in Handlers : DbResetCascade(h)
    \/ \E h \in Handlers : DbResetStats(h)
    \/ \E h \in Handlers : DbDeadlock(h)
    \/ \E h \in Handlers : DbResetCommit(h)
    \/ \E h \in Handlers : DbAnalytics(h)
    \/ \E h \in Handlers : DbAnalyticsTotals(h)
    \/ \E h \in Handlers : DbAnalyticsPlatform(h)
    \/ \E h \in Handlers : DbAnalyticsBadge(h)
    \/ \E h \in Handlers : DbAnalyticsPending(h)
    \/ Tick

SpecDb == InitDb /\ [][NextDb]_vars

\* The steps of a request in progress on handler h.
DbStep(h) ==
    \/ DbBotIncrement(h)
    \/ DbTrackSelect(h)
    \/ DbTrackUpdate(h)
    \/ DbTrackInsert(h)
    \/ DbTrackCommit(h)
    \/ DbGenerateInsert(h)
    \/ DbGenerateCommit(h)
    \/ DbConfirmUpdate(h)
    \/ DbConfirmCommit(h)
    \/ DbResetHistory(h)
    \/ DbResetScan(h)
    \/ DbResetPosts(h)
    \/ DbResetCascade(h)
    \/ DbResetStats(h)
    \/ DbDeadlock(h)
    \/ DbResetCommit(h)
    \/ DbAnalyticsTotals(h)
    \/ DbAnalyticsPlatform(h)
    \/ DbAnalyticsBadge(h)
    \/ DbAnalyticsPending(h)

\* Every worker process runs, and the database answers every statement: a
\* request whose next statement can run, and could run ever since, runs it.
FairDb == \A h \in Handlers : WF_vars(DbStep(h))

SpecDbFair == InitDb /\ [][NextDb]_vars /\ FairDb

(***************************************************************************)
(* The file-backed variant: src/click_tracking_railway.py                  *)
(*                                                                         *)
(* The request threads share click_data and ip_tracker without a lock: a   *)
(* thread may be preempted between two statements, and between the load    *)
(* and the store of an augmented assignment (x += 1).                      *)
(***************************************************************************)
FilePost(platform, badge_type, username, t) ==
    [ clicks |-> 0, platform |-> platform, badge_type |-> badge_type,
      username |-> username, post_url |-> "", first_click |-> NULL,
      last_click |-> NULL, created_at |-> t ]

FileClickRecord(l) ==
    [ tracking_id |-> l.tracking_id, timestamp |-> l.now, platform |-> l.p,
      badge_type |-> l.b, ip |-> Take(l.ip, IP_CHARS),
      user_agent |-> Take(l.user_agent, UA_CHARS_FILE), is_human |-> TRUE ]

\* A slice that keeps the whole list.
Untruncated(history) == history

\* click_data["click_history"][-50:] when the list is longer than 50
Truncated(history) ==
    IF Len(history) > HISTORY_LIMIT
    THEN SubSeq(history, Len(history) - HISTORY_LIMIT + 1, Len(history))
    ELSE history

\* save_data: json.dump of click_data into the file opened with 'w'.  When
\* it raises, the file is as it was (open failed) or cut short.
save_data(ok) ==
    /\ Storage(ok)
    /\ IF ok
       THEN file' = [ exists |-> TRUE, corrupt |-> FALSE, data |-> click_data' ]
       ELSE \/ file' = file
            \/ file' = [ exists |-> TRUE, corrupt |-> TRUE, data |-> click_data0 ]

\* load_data: what a process that starts finds as click_data.  The file's
\* content when the file exists and parses; the empty store of the module
\* otherwise.
load_data ==
    IF file.exists /\ ~file.corrupt THEN file.data ELSE click_data0

\* The locals of the handlers once the post objects of the ids in del have
\* been replaced or dropped: a store that was about to go into one of them
\* goes into an object nothing refers to any more.
Replaced(l, del) ==
    [g \in Handlers |->
        IF l[g].tracking_id \in del /\ pc[g] = "wr_clicks"
        THEN [l[g] EXCEPT !.stale = TRUE]
        ELSE l[g]]

\* The locals of the handlers once click_data has been rebound to a new
\* dict: the store of a += that loaded the old dict goes into the old dict.
Orphaned(l) ==
    [g \in Handlers |->
        IF pc[g] = "bot_wr" THEN [l[g] EXCEPT !.stale = TRUE] ELSE l[g]]

\* track_click, up to the lookup; for a bot, the load of
\* click_data["bot_requests_blocked"] += 1.  The sweep and the limiter are
\* one step here; what two threads inside is_rate_limited do to each other
\* is the matter of ThreadLoad and ThreadStore.
FileTrackStart(h, tracking_id, user_agent, ip, p, b) ==
    LET l == [ NoLoc EXCEPT !.tracking_id = tracking_id, !.ip = ip,
                            !.user_agent = user_agent, !.p = p, !.b = b ]
        tr == clean_ip_tracker(ip_tracker[ProcOf(h)], clock)
    IN
    /\ variant = "file"
    /\ Begin(h)
    /\ IF IsBot[user_agent]
       THEN /\ Goto(h, "bot_wr")
            /\ loc' = Entered(h, [l EXCEPT !.c = click_data.bot_requests_blocked], TRUE)
            /\ ip_tracker' = [ip_tracker EXCEPT ![ProcOf(h)] = tr]
            /\ UNCHANGED hist
       ELSE IF rate_limited(tr, ip, tracking_id, clock)
       THEN /\ ClickReply(h, tracking_id, Redirect, "rate_limited", NULL)
            /\ loc' = Passed(h)
            /\ ip_tracker' = [ip_tracker EXCEPT ![ProcOf(h)] =
                                 rate_tracker(tr, ip, tracking_id, clock)]
       ELSE /\ Goto(h, "lookup")
            /\ loc' = Entered(h, l, TRUE)
            /\ ip_tracker' = [ip_tracker EXCEPT ![ProcOf(h)] =
                                 rate_tracker(tr, ip, tracking_id, clock)]
            /\ UNCHANGED hist
    /\ UNCHANGED << env, faults, db, fs >>

\* A bot click that is counted in total_clicks as well.
FileBotCounted(h) ==
    /\ pc[h] = "bot_wr"
    /\ click_data' = [click_data EXCEPT !.bot_requests_blocked = loc[h].c + 1,
                                        !.total_clicks = @ + 1]
    /\ ClickReply(h, loc[h].tracking_id, Redirect, "bot", NULL)
    /\ loc' = Left(h)
    /\ UNCHANGED << env, nreq, faults, ip_tracker, db, file >>

\* the store of click_data["bot_requests_blocked"] += 1
FileBotWrite(h) ==
    /\ pc[h] = "bot_wr"
    /\ click_data' = IF loc[h].stale THEN click_data
                     ELSE [click_data EXCEPT !.bot_requests_blocked = loc[h].c + 1]
    /\ ClickReply(h, loc[h].tracking_id, Redirect, "bot", NULL)
    /\ loc' = Left(h)
    /\ UNCHANGED << env, nreq, faults, ip_tracker, db, file >>

\* if tracking_id not in click_data["posts"]: create the post
FileTrackLookup(h) ==
    LET i == loc[h].tracking_id IN
    /\ pc[h] = "lookup"
    /\ click_data' =
          IF i \in DOMAIN click_data.posts THEN click_data
          ELSE [click_data EXCEPT !.posts =
                   Put(@, i, FilePost(loc[h].p, loc[h].b, "unknown", clock))]
    /\ Goto(h, "rd_clicks")
    /\ UNCHANGED << env, nreq, faults, loc, ip_tracker, db, file, hist >>

\* the load of click_data["posts"][tracking_id]["clicks"] += 1
FileTrackRead(h) ==
    LET i == loc[h].tracking_id IN
    /\ pc[h] = "rd_clicks"
    /\ IF i \notin DOMAIN click_data.posts
       THEN \* KeyError
            /\ ClickReply(h, i, FileErrorRedirect, "error", NULL)
            /\ loc' = Left(h)
       ELSE /\ Goto(h, "wr_clicks")
            /\ loc' = [loc EXCEPT ![h].c = click_data.posts[i].clicks]
            /\ UNCHANGED hist
    /\ UNCHANGED << env, nreq, faults, ip_tracker, db, fs >>

\* the store of click_data["posts"][tracking_id]["clicks"] += 1, into the
\* post object the load took, and click_data["total_clicks"] += 1
FileTrackWrite(h) ==
    LET i == loc[h].tracking_id IN
    /\ pc[h] = "wr_clicks"
    /\ click_data' =
          [click_data EXCEPT
              !.posts = IF loc[h].stale THEN @
                        ELSE [@ EXCEPT ![i].clicks = loc[h].c + 1],
              !.total_clicks = @ + 1]
    /\ Goto(h, "check")
    /\ loc' = [loc EXCEPT ![h].stale = FALSE]
    /\ UNCHANGED << env, nreq, faults, ip_tracker, db, file, hist >>

\* now = datetime.now().isoformat(); if not ...["first_click"]
FileTrackCheck(h) ==
    LET i == loc[h].tracking_id IN
    /\ pc[h] = "check"
    /\ IF i \notin DOMAIN click_data.posts
       THEN /\ ClickReply(h, i, FileErrorRedirect, "error", NULL)
            /\ loc' = Left(h)
       ELSE /\ Goto(h, "stamp")
            /\ loc' = [loc EXCEPT ![h].now = clock,
                                  ![h].flag = (click_data.posts[i].first_click = NULL)]
            /\ UNCHANGED hist
    /\ UNCHANGED << env, nreq, faults, ip_tracker, db, fs >>

\* ...["first_click"] = now (when the test passed); ...["last_click"] = now
FileTrackStamp(h) ==
    LET i == loc[h].tracking_id IN
    /\ pc[h] = "stamp"
    /\ IF i \notin DOMAIN click_data.posts
       THEN /\ ClickReply(h, i, FileErrorRedirect, "error", NULL)
            /\ loc' = Left(h)
            /\ UNCHANGED click_data
       ELSE /\ Goto(h, "record")
            /\ click_data' =
                  [click_data EXCEPT
                      !.posts[i].first_click = IF loc[h].flag THEN loc[h].now ELSE @,
                      !.posts[i].last_click = loc[h].now]
            /\ UNCHANGED << loc, hist >>
    /\ UNCHANGED << env, nreq, faults, ip_tracker, db, file >>

\* click_record = {... "ip": ip[:15] ...}; append; when the list is longer
\* than 50, the slice click_data["click_history"][-50:] is taken
FileTrackRecord(h) ==
    LET appended == Append(click_data.click_history, FileClickRecord(loc[h])) IN
    /\ pc[h] = "record"
    /\ IF loc[h].ip = None
       THEN \* None[:15]: TypeError
            /\ ClickReply(h, loc[h].tracking_id, FileErrorRedirect, "error", NULL)
            /\ loc' = Left(h)
            /\ UNCHANGED click_data
       ELSE /\ click_data' = [click_data EXCEPT !.click_history = appended]
            /\ IF Len(appended) > HISTORY_LIMIT
               THEN /\ Goto(h, "truncate")
                    /\ loc' = [loc EXCEPT ![h].kept = Truncated(appended)]
               ELSE /\ Goto(h, "save")
                    /\ UNCHANGED loc
            /\ UNCHANGED hist
    /\ UNCHANGED << env, nreq, faults, ip_tracker, db, file >>

\* click_data["click_history"] = (the slice): the list is replaced by the
\* last 50 records of the list as it was when the slice was taken.
FileTrackTruncate(h) ==
    /\ pc[h] = "truncate"
    /\ click_data' = [click_data EXCEPT !.click_history = loc[h].kept]
    /\ Goto(h, "save")
    /\ UNCHANGED << env, nreq, faults, loc, ip_tracker, db, file, hist >>

\* save_data(), the prints, the redirect
FileTrackSave(h) ==
    LET i == loc[h].tracking_id IN
    /\ pc[h] = "save"
    /\ UNCHANGED click_data
    /\ \E ok \in BOOLEAN :
         /\ save_data(ok)
         /\ IF ~ok
            THEN ClickReply(h, i, FileErrorRedirect, "error", NULL)
            ELSE IF i \notin DOMAIN click_data.posts
            THEN \* current_clicks = ...[tracking_id]["clicks"]: KeyError
                 ClickReply(h, i, FileErrorRedirect, "error", NULL)
            ELSE ClickReply(h, i, Redirect, "accepted", loc[h].now)
    /\ loc' = Left(h)
    /\ UNCHANGED << env, nreq, ip_tracker, db >>

\* generate_tracking_url: click_data["posts"][tracking_id] = {...}, whatever
\* the id held before.
FileGenerate(h, platform, badge_type, username, tracking_id) ==
    LET l == [NoLoc EXCEPT !.tracking_id = tracking_id]
        del == {tracking_id} \cap DOMAIN click_data.posts
    IN
    /\ variant = "file"
    /\ Begin(h)
    /\ click_data' = [click_data EXCEPT !.posts =
                         Put(@, tracking_id,
                             FilePost(platform, badge_type, username, clock))]
    /\ Goto(h, "gen_save")
    /\ loc' = Replaced(Entered(h, l, FALSE), del)
    /\ upset' = Dropped(del)
    /\ UNCHANGED << env, faults, ip_tracker, db, file, accepted, max_now, blocked >>

FileGenerateSave(h) ==
    LET i == loc[h].tracking_id IN
    /\ pc[h] = "gen_save"
    /\ UNCHANGED click_data
    /\ \E ok \in BOOLEAN :
         /\ save_data(ok)
         /\ IF ok THEN Reply(h, "generate", i, Ok200, "created")
                  ELSE Reply(h, "generate", i, Http(500), "error")
    /\ loc' = Left(h)
    /\ UNCHANGED << env, nreq, ip_tracker, db, hist >>

\* update_post_info: the 404 for an id that is absent or holds no post, or
\* the stores of post_url and (unless it is 'unknown') username.
FileUpdate(h, tracking_id, post_url, username) ==
    /\ variant = "file"
    /\ Begin(h)
    /\ IF tracking_id \notin DOMAIN click_data.posts
       THEN /\ Reply(h, "update", tracking_id, Http(404), "not_found")
            /\ loc' = Passed(h)
            /\ UNCHANGED click_data
       ELSE /\ Goto(h, "upd_save")
            /\ loc' = Entered(h, [NoLoc EXCEPT !.tracking_id = tracking_id], FALSE)
            /\ click_data' =
                  [click_data EXCEPT
                      !.posts[tracking_id].post_url = post_url,
                      !.posts[tracking_id].username =
                          IF username # "unknown" THEN username ELSE @]
    /\ UNCHANGED << env, faults, ip_tracker, db, file, hist >>

\* save_data() and the response, which reads the post's clicks
FileUpdateSave(h) ==
    LET i == loc[h].tracking_id IN
    /\ pc[h] = "upd_save"
    /\ UNCHANGED click_data
    /\ \E ok \in BOOLEAN :
         /\ save_data(ok)
         /\ IF ok /\ i \in DOMAIN click_data.posts
            THEN Reply(h, "update", i, Ok200, "updated")
            ELSE Reply(h, "update", i, Http(500), "error")
    /\ loc' = Left(h)
    /\ UNCHANGED << env, nreq, ip_tracker, db, hist >>

\* reset_all: click_data = {...}; ip_tracker = {}
FileReset(h) ==
    /\ variant = "file"
    /\ Begin(h)
    /\ click_data' = click_data0
    /\ ip_tracker' = [ip_tracker EXCEPT ![ProcOf(h)] = << >>]
    /\ Goto(h, "reset_save")
    /\ loc' = Orphaned(Replaced(Entered(h, NoLoc, FALSE), DOMAIN click_data.posts))
    /\ upset' = Dropped(DOMAIN click_data.posts)
    /\ blocked' = 0
    /\ UNCHANGED << env, faults, db, file, accepted, max_now >>

\* save_data(); no except: a failure is the framework's 500
FileResetSave(h) ==
    /\ pc[h] = "reset_save"
    /\ UNCHANGED click_data
    /\ \E ok \in BOOLEAN :
         /\ save_data(ok)
         /\ IF ok THEN Reply(h, "reset", "", Ok200, "reset")
                  ELSE Reply(h, "reset", "", Http(500), "error")
    /\ loc' = Left(h)
    /\ UNCHANGED << env, nreq, ip_tracker, db, hist >>

\* get_analytics: the loop over click_data["posts"] that builds posts_list
\* (every post: the file has no confirmed field), and the sums taken from
\* posts_list.
FileAnalytics(h) ==
    LET ids == DOMAIN click_data.posts
        list == [i \in ids |-> Listed(click_data.posts[i])]
    IN
    /\ variant = "file"
    /\ Begin(h)
    /\ Goto(h, "an_bot")
    /\ loc' = Entered(h,
          [ NoLoc EXCEPT !.after_reset = JustReset,
                         !.agg = [ NoAggregate EXCEPT
                                     !.posts = list,
                                     !.total_clicks = SumClicks(list, ids),
                                     !.total_posts = Cardinality(ids),
                                     !.clicks_by_platform = GroupBy(list, ids, "platform"),
                                     !.clicks_by_badge_type = GroupBy(list, ids, "badge_type") ] ],
          FALSE)
    /\ UNCHANGED << env, faults, ip_tracker, db, fs, hist >>

\* click_data.get("bot_requests_blocked", 0): the first and the second of
\* the three reads in the body.
FileAnalyticsBot(h) ==
    /\ pc[h] = "an_bot"
    /\ Len(loc[h].agg.bot_requests_blocked) < 2
    /\ loc' = [loc EXCEPT ![h].agg.bot_requests_blocked =
                              Append(@, click_data.bot_requests_blocked)]
    /\ Goto(h, "an_bot")
    /\ UNCHANGED << env, nreq, faults, ip_tracker, db, fs, hist >>

\* the third read, and return jsonify({...})
FileAnalyticsReply(h) ==
    /\ pc[h] = "an_bot"
    /\ Len(loc[h].agg.bot_requests_blocked) = 2
    /\ AnalyticsReply(h, [loc[h].agg EXCEPT !.bot_requests_blocked =
                                               Append(@, click_data.bot_requests_blocked)])
    /\ loc' = Left(h)
    /\ UNCHANGED << env, nreq, faults, ip_tracker, db, fs, hist >>

NextFile ==
    \/ \E h \in Handlers, i \in TrackingIds, ua \in UserAgents,
          ip \in IPs \cup {None}, p \in PCodes, b \in BCodes :
          FileTrackStart(h, i, ua, ip, p, b)
    \/ \E h \in Handlers : FileBotWrite(h)
    \/ \E h \in Handlers : FileTrackLookup(h)
    \/ \E h \in Handlers : FileTrackRead(h)
    \/ \E h \in Handlers : FileTrackWrite(h)
    \/ \E h \in Handlers : FileTrackCheck(h)
    \/ \E h \in Handlers : FileTrackStamp(h)
    \/ \E h \in Handlers : FileTrackRecord(h)
    \/ \E h \in Handlers : FileTrackTruncate(h)
    \/ \E h \in Handlers : FileTrackSave(h)
    \/ \E h \in Handlers, pl \in GenPlatforms, bt \in BadgeTypes,
          u \in GenUsernames, i \in TrackingIds :
          FileGenerate(h, pl, bt, u, i)
    \/ \E h \in Handlers : FileGenerateSave(h)
    \/ \E h \in Handlers, i \in TrackingIds, url \in PostUrls,
          u \in UpdateUsernames :
          FileUpdate(h, i, url, u)
    \/ \E h \in Handlers : FileUpdateSave(h)
    \/ \E h \in Handlers : FileReset(h)
    \/ \E h \in Handlers : FileResetSave(h)
    \/ \E h \in Handlers : FileAnalytics(h)
    \/ \E h \in Handlers : FileAnalyticsBot(h)
    \/ \E h \in Handlers : FileAnalyticsReply(h)
    \/ Tick

SpecFile == InitFile /\ [][NextFile]_vars

(***************************************************************************)
(* Either variant.                                                         *)
(***************************************************************************)
Next == NextDb \/ NextFile

Spec == Init /\ [][Next]_vars

(***************************************************************************)
(* The rate limiter taken alone: one process's ip_tracker, the calls       *)
(* is_rate_limited(Ip0, Id0) of one client on one tracking id, the sweeps  *)
(* clean_ip_tracker(), and the clock moving between them.  The dict starts *)
(* empty or with the entry of another tracking id; probe is the log of     *)
(* the calls: the time of the call, the last-seen time it found (NULL: no  *)
(* entry), what it returned, and the count it left.                        *)
(***************************************************************************)
Seeds ==
    { << >>, (Key(Ip0, Id1) :> <<1, 1>>), (Key(Ip0, Id1) :> <<1, BURST_LIMIT>>) }

Waits == { 1, BURST_WINDOW - 1, RESET_WINDOW, RESET_WINDOW + 1 }

InitLimiter ==
    /\ variant \in {"db", "file"}
    /\ Rest
    /\ clock = 1
    /\ posts = << >>
    /\ click_history = << >>
    /\ stats = 0
    /\ click_data = click_data0
    /\ file = NoFile
    /\ accepted = [i \in TrackingIds |-> 0]
    /\ max_now = [i \in TrackingIds |-> NULL]
    /\ \E s \in Seeds : ip_tracker = [q \in Handlers |-> IF q = 1 THEN s ELSE << >>]

LimiterCall ==
    LET tr == ip_tracker[1]
        key == Key(Ip0, Id0)
        after == rate_tracker(tr, Ip0, Id0, clock)
    IN
    /\ nreq < MaxCalls
    /\ nreq' = nreq + 1
    /\ ip_tracker' = [ip_tracker EXCEPT ![1] = after]
    /\ probe' = Append(probe,
                   [ t |-> clock,
                     seen |-> IF key \in DOMAIN tr THEN tr[key][1] ELSE NULL,
                     limited |-> rate_limited(tr, Ip0, Id0, clock),
                     count |-> after[key][2] ])
    /\ UNCHANGED << variant, clock, ticks, faults, pc, loc, response, db, fs, hist >>

LimiterSweep ==
    /\ ip_tracker' = [ip_tracker EXCEPT ![1] = clean_ip_tracker(@, clock)]
    /\ UNCHANGED << env, nreq, faults, pc, loc, response, db, fs, hist >>

LimiterWait ==
    /\ ticks < MaxWaits
    /\ ticks' = ticks + 1
    /\ \E d \in Waits : clock' = clock + d
    /\ UNCHANGED << variant, probe, nreq, faults, pc, loc, response, ip_tracker,
                    db, fs, hist >>

NextLimiter == LimiterCall \/ LimiterSweep \/ LimiterWait

SpecLimiter == InitLimiter /\ [][NextLimiter]_vars

(***************************************************************************)
(* The limiter under request threads.  The file-backed server is started   *)
(* by app.run, which serves every request on a thread of its own, and      *)
(* is_rate_limited takes no lock: a call reads the clock and loads the     *)
(* entry of its key from the shared dict (ThreadLoad), and decides and     *)
(* stores from what it loaded (ThreadStore); the other thread runs in      *)
(* between.  Both threads call for the same client and tracking id.  The   *)
(* log in probe has the shape of the log of LimiterCall, in the order of   *)
(* the stores; t is the time the call read.  No sweep and no reset run     *)
(* here: a sweep removes only entries a call would restart at count 1.     *)
(***************************************************************************)
InitThreads ==
    /\ variant = "file"
    /\ Rest
    /\ clock = 1
    /\ posts = << >>
    /\ click_history = << >>
    /\ stats = 0
    /\ click_data = click_data0
    /\ file = NoFile
    /\ accepted = [i \in TrackingIds |-> 0]
    /\ max_now = [i \in TrackingIds |-> NULL]
    /\ ip_tracker = NoTracker

ThreadLoad(h) ==
    LET tr == ip_tracker[1]
        key == Key(Ip0, Id0)
    IN
    /\ pc[h] = "idle"
    /\ nreq < MaxThreadCalls
    /\ nreq' = nreq + 1
    /\ pc' = [pc EXCEPT ![h] = "rl_store"]
    /\ loc' = [loc EXCEPT ![h] =
                 [NoLoc EXCEPT !.now = clock,
                               !.flag = key \in DOMAIN tr,
                               !.last_time = IF key \in DOMAIN tr THEN tr[key][1] ELSE NULL,
                               !.c = IF key \in DOMAIN tr THEN tr[key][2] ELSE 0]]
    /\ UNCHANGED << env, faults, response, ip_tracker, db, fs, hist >>

ThreadStore(h) ==
    LET l == loc[h]
        key == Key(Ip0, Id0)
        loaded == IF l.flag THEN (key :> <<l.last_time, l.c>>) ELSE << >>
        limited == rate_limited(loaded, Ip0, Id0, l.now)
        entry == rate_tracker(loaded, Ip0, Id0, l.now)[key]
    IN
    /\ pc[h] = "rl_store"
    /\ pc' = [pc EXCEPT ![h] = "idle"]
    /\ loc' = [loc EXCEPT ![h] = NoLoc]
    /\ ip_tracker' = IF limited THEN ip_tracker
                     ELSE [ip_tracker EXCEPT ![1] = Put(@, key, entry)]
    /\ probe' = Append(probe,
                   [ t |-> l.now, seen |-> l.last_time, limited |-> limited,
                     count |-> entry[2] ])
    /\ UNCHANGED << variant, clock, ticks, nreq, faults, response, db, fs, hist >>

ThreadWait ==
    /\ ticks < MaxWaits
    /\ ticks' = ticks + 1
    /\ \E d \in Waits : clock' = clock + d
    /\ UNCHANGED << variant, probe, nreq, faults, pc, loc, response, ip_tracker,
                    db, fs, hist >>

NextThreads ==
    \/ \E h \in Handlers : ThreadLoad(h)
    \/ \E h \in Handlers : ThreadStore(h)
    \/ ThreadWait

SpecThreads == InitThreads /\ [][NextThreads]_vars

(***************************************************************************)
(* The limiter called for several pairs.  Both arguments are text the      *)
(* client chooses: ip is the X-Forwarded-For header when the request has   *)
(* one, and tracking_id is the path segment after /track/, whatever it     *)
(* holds.  KeyPairs has the pair of the other harnesses, the same client   *)
(* on the other tracking id, and two pairs whose texts hold an underscore. *)
(* The calls are made one at a time on one dict; probe logs, for every     *)
(* call, its arguments, the time, the last-seen time it found (NULL: no    *)
(* entry), what it returned, and the entries the call changed, as the set  *)
(* of keys whose value differs after it.                                   *)
(***************************************************************************)
KeyPairs ==
    { << Ip0, Id0 >>, << Ip0, Id1 >>,
      << Ip0, "8_" \o Id0 >>, << Ip0 \o "_8", Id0 >> }

InitKeys ==
    /\ variant \in {"db", "file"}
    /\ Rest
    /\ clock = 1
    /\ posts = << >>
    /\ click_history = << >>
    /\ stats = 0
    /\ click_data = click_data0
    /\ file = NoFile
    /\ accepted = [i \in TrackingIds |-> 0]
    /\ max_now = [i \in TrackingIds |-> NULL]
    /\ ip_tracker = NoTracker

KeyCall(ip, tracking_id) ==
    LET tr == ip_tracker[1]
        key == Key(ip, tracking_id)
        after == rate_tracker(tr, ip, tracking_id, clock)
    IN
    /\ nreq < MaxKeyCalls
    /\ nreq' = nreq + 1
    /\ ip_tracker' = [ip_tracker EXCEPT ![1] = after]
    /\ probe' = Append(probe,
                   [ ip |-> ip, tracking_id |-> tracking_id, t |-> clock,
                     seen |-> IF key \in DOMAIN tr THEN tr[key][1] ELSE NULL,
                     limited |-> rate_limited(tr, ip, tracking_id, clock),
                     changed |-> {k \in DOMAIN after :
                                     k \notin DOMAIN tr \/ after[k] # tr[k]} ])
    /\ UNCHANGED << variant, clock, ticks, faults, pc, loc, response, db, fs, hist >>

KeyWait ==
    /\ ticks < MaxWaits
    /\ ticks' = ticks + 1
    /\ \E d \in Waits : clock' = clock + d
    /\ UNCHANGED << variant, probe, nreq, faults, pc, loc, response, ip_tracker,
                    db, fs, hist >>

NextKeys ==
    \/ \E pair \in KeyPairs : KeyCall(pair[1], pair[2])
    \/ KeyWait

SpecKeys == InitKeys /\ [][NextKeys]_vars

(***************************************************************************)
(* The classifier taken alone: is_bot_request on user agents put together  *)
(* from at most MaxParts parts.  DenyParts are deny-list tokens of         *)
(* BOT_USER_AGENTS as clients send them, in some letter case and with a    *)
(* version; OtherParts are browser, mobile and library tokens, and tokens  *)
(* that are none of these.  probe is the user agent, the kinds of parts    *)
(* it was put together from, and the verdict once is_bot_request has been  *)
(* called.                                                                 *)
(***************************************************************************)
DenyParts ==
    { "Twitterbot/1.0", "TWITTERBOT", "facebookexternalhit/1.1",
      "HeadlessChrome/119.0", "GoogleBot/2.1", "WhatsApp/2.23",
      "pInTeReSt", "Yahoo! Slurp", "SPIDER", "Selenium" }

BrowserParts == { "Mozilla/5.0", "Chrome/120.0", "Safari/537.36", "OPERA/9.80" }

MobileParts == { "(iPhone; CPU OS 17_0)", "Android 14" }

LibraryParts == { "curl/8.4.0", "okhttp/4.9", "Python-urllib/3.11" }

PlainParts == { "Lynx/2.8", "Dalvik/2.1.0" }

OtherParts == BrowserParts \cup MobileParts \cup LibraryParts \cup PlainParts

NoVerdict == "none"

Joined(ua, part) == IF ua = "" THEN part ELSE ua \o " " \o part

InitClassifier ==
    /\ variant \in {"db", "file"}
    /\ clock = 1
    /\ ticks = 0
    /\ nreq = 0
    /\ faults = 0
    /\ pc = [h \in Handlers |-> "idle"]
    /\ loc = [h \in Handlers |-> NoLoc]
    /\ response = NoResponse
    /\ upset = [i \in TrackingIds |-> FALSE]
    /\ blocked = 0
    /\ posts = << >>
    /\ click_history = << >>
    /\ stats = 0
    /\ click_data = click_data0
    /\ file = NoFile
    /\ accepted = [i \in TrackingIds |-> 0]
    /\ max_now = [i \in TrackingIds |-> NULL]
    /\ ip_tracker = NoTracker
    /\ probe = [ ua |-> "", parts |-> 0, deny |-> FALSE, browser |-> FALSE,
                 mobile |-> FALSE, library |-> FALSE, verdict |-> NoVerdict ]

\* The client puts one more part into its User-Agent header.
ClassifierPart ==
    /\ probe.verdict = NoVerdict
    /\ probe.parts < MaxParts
    /\ \E part \in DenyParts \cup OtherParts :
          probe' = [ probe EXCEPT !.ua = Joined(@, part),
                                  !.parts = @ + 1,
                                  !.deny = @ \/ part \in DenyParts,
                                  !.browser = @ \/ part \in BrowserParts,
                                  !.mobile = @ \/ part \in MobileParts,
                                  !.library = @ \/ part \in LibraryParts ]
    /\ UNCHANGED << variant, clock, ticks, nreq, faults, pc, loc, response,
                    ip_tracker, db, fs, hist >>

\* is_bot_request(user_agent)
ClassifierCall ==
    /\ probe.verdict = NoVerdict
    /\ probe' = [ probe EXCEPT !.verdict = IF is_bot_request(probe.ua)
                                           THEN "bot" ELSE "human" ]
    /\ UNCHANGED << variant, clock, ticks, nreq, faults, pc, loc, response,
                    ip_tracker, db, fs, hist >>

NextClassifier == ClassifierPart \/ ClassifierCall

SpecClassifier == InitClassifier /\ [][NextClassifier]_vars

(***************************************************************************)
(* The two variants side by side.  One director feeds the same request,    *)
(* with the same tracking id, user agent, client address and time, first   *)
(* to the relational track_click / generate_tracking_url (served by        *)
(* handler DbSide, with the tracker of its process and the tables posts,   *)
(* click_history, stats) and then to the file-backed ones (served by       *)
(* handler FileSide, with the tracker of the one file-backed process and   *)
(* click_data).  A request runs to its response before the next is fed;    *)
(* no storage call fails.  probe holds the request being fed, how many     *)
(* have been fed, and how the two variants classified the clicks.  The     *)
(* sequences are too short for the history to reach 50 records, so the     *)
(* truncation step of the file-backed track_click has no part here.        *)
(***************************************************************************)
DbSide == 2
FileSide == 1

NoRequest == [ op |-> "", tracking_id |-> "", user_agent |-> "", ip |-> "" ]

PairRequests ==
    [ op : {"click"}, tracking_id : TrackingIds, user_agent : UserAgents,
      ip : IPs ]
    \cup [ op : {"generate"}, tracking_id : TrackingIds, user_agent : {""},
           ip : {""} ]

\* How track_click treated a click: rejected as a bot, rejected by the
\* limiter, or passed on to the store.
ClassOf(outcome) ==
    IF outcome \in {"bot", "rate_limited"} THEN outcome ELSE "human"

\* One generate-tracking-url, then its confirm-post / update-post-info,
\* served by both variants within the first second.
PairConfirmedData ==
    [ click_data0 EXCEPT !.posts =
        (Id0 :> [ FilePost("facebook", "gold", "unknown", 1)
                    EXCEPT !.post_url = "https://x.com/p/1" ]) ]

InitPair ==
    /\ variant = "db"
    /\ clock = 1
    /\ ticks = 0
    /\ nreq = 0
    /\ faults = MaxFaults
    /\ pc = [h \in Handlers |-> "idle"]
    /\ loc = [h \in Handlers |-> NoLoc]
    /\ response = NoResponse
    /\ upset = [i \in TrackingIds |-> FALSE]
    /\ blocked = 0
    /\ accepted = [i \in TrackingIds |-> 0]
    /\ max_now = [i \in TrackingIds |-> NULL]
    /\ ip_tracker = NoTracker
    /\ click_history = << >>
    /\ stats = 0
    /\ probe = [ phase |-> "choose", req |-> NoRequest, n |-> 0,
                 db |-> "", file |-> "", same |-> TRUE ]
    /\ \/ /\ posts = << >>
          /\ click_data = click_data0
          /\ file = NoFile
       \/ /\ posts = ConfirmedPosts
          /\ click_data = PairConfirmedData
          /\ file = [ exists |-> TRUE, corrupt |-> FALSE,
                      data |-> PairConfirmedData ]

\* Time passes between two requests.
PairTick ==
    /\ probe.phase = "choose"
    /\ Tick

\* The next request of the sequence is fed to the relational variant.
PairChoose ==
    /\ probe.phase = "choose"
    /\ probe.n < MaxPairs
    /\ \E r \in PairRequests :
         probe' = [probe EXCEPT !.phase = "db", !.req = r, !.db = "", !.file = ""]
    /\ variant' = "db"
    /\ nreq' = 0
    /\ response' = NoResponse
    /\ UNCHANGED << clock, ticks, faults, pc, loc, ip_tracker, db, fs, hist >>

PairDbClick ==
    /\ probe.phase = "db" /\ nreq = 0 /\ probe.req.op = "click"
    /\ DbTrackStart(DbSide, probe.req.tracking_id, probe.req.user_agent,
                    probe.req.ip, "fac", "g")

PairDbGenerate ==
    /\ probe.phase = "db" /\ nreq = 0 /\ probe.req.op = "generate"
    /\ DbGenerate(DbSide, "facebook", "gold", "unknown", probe.req.tracking_id)

\* The relational variant has answered: the same request is fed to the
\* file-backed variant.
PairSwitch ==
    /\ probe.phase = "db" /\ nreq = 1 /\ pc[DbSide] = "idle"
    /\ probe' = [probe EXCEPT !.phase = "file", !.db = response.outcome]
    /\ variant' = "file"
    /\ nreq' = 0
    /\ response' = NoResponse
    /\ UNCHANGED << clock, ticks, faults, pc, loc, ip_tracker, db, fs, hist >>

PairFileClick ==
    /\ probe.phase = "file" /\ nreq = 0 /\ probe.req.op = "click"
    /\ FileTrackStart(FileSide, probe.req.tracking_id, probe.req.user_agent,
                      probe.req.ip, "fac", "g")

PairFileGenerate ==
    /\ probe.phase = "file" /\ nreq = 0 /\ probe.req.op = "generate"
    /\ FileGenerate(FileSide, "facebook", "gold", "unknown", probe.req.tracking_id)

\* Both variants have answered.
PairDone ==
    /\ probe.phase = "file" /\ nreq = 1 /\ pc[FileSide] = "idle"
    /\ probe' = [probe EXCEPT
                    !.phase = "choose", !.n = @ + 1,
                    !.file = response.outcome,
                    !.same = @ /\ ( probe.req.op = "click" =>
                                      ClassOf(probe.db) = ClassOf(response.outcome) )]
    /\ response' = NoResponse
    /\ UNCHANGED << variant, clock, ticks, nreq, faults, pc, loc, ip_tracker,
                    db, fs, hist >>

NextPair ==
    \/ PairTick
    \/ PairChoose
    \/ PairDbClick
    \/ PairDbGenerate
    \/ DbBotIncrement(DbSide)
    \/ DbTrackSelect(DbSide)
    \/ DbTrackUpdate(DbSide)
    \/ DbTrackInsert(DbSide)
    \/ DbTrackCommit(DbSide)
    \/ DbGenerateInsert(DbSide)
    \/ DbGenerateCommit(DbSide)
    \/ PairSwitch
    \/ PairFileClick
    \/ PairFileGenerate
    \/ FileBotWrite(FileSide)
    \/ FileTrackLookup(FileSide)
    \/ FileTrackRead(FileSide)
    \/ FileTrackWrite(FileSide)
    \/ FileTrackCheck(FileSide)
    \/ FileTrackStamp(FileSide)
    \/ FileTrackRecord(FileSide)
    \/ FileTrackSave(FileSide)
    \/ FileGenerateSave(FileSide)
    \/ PairDone

SpecPair == InitPair /\ [][NextPair]_vars

(***************************************************************************)
(* The contract, claim by claim.                                           *)
(***************************************************************************)

\* The post of id i is confirmed: the relational variant's column; in the
\* file-backed variant, whose posts have no such field, a post that
\* update_post_info has given its post_url.
Confirmed(i) ==
    /\ i \in DOMAIN Posts
    /\ IF variant = "db" THEN Posts[i].confirmed ELSE Posts[i].post_url # ""

\* C1: while the post of a tracking id does not exist or is not confirmed,
\* no step raises that id's clicks counter or adds a history record of it.
C1_UnconfirmedClickCountsNothing ==
    [][\A i \in TrackingIds :
          ~Confirmed(i) =>
              /\ ClicksOf(i)' <= ClicksOf(i)
              /\ Len(HistoryOf(i))' <= Len(HistoryOf(i))]_vars

\* C2: when no request is in progress, a post that was never dropped or
\* replaced, and on which no click ended in an error, counts exactly the
\* click requests that completed as accepted, and the history holds exactly
\* one record for each of them, however their handling interleaved.
C2_AcceptedClicksAllCounted ==
    Idle =>
        \A i \in TrackingIds :
            ~upset[i] =>
                /\ ClicksOf(i) = accepted[i]
                /\ Len(HistoryOf(i)) = accepted[i]

\* C3: a click request that was handled with no other request in progress
\* leaves, however it ends, the clicks counter of its post and the click
\* history advanced together: both by one, or neither.
C3_CounterAndHistoryTogether ==
    [][\A h \in Handlers, i \in TrackingIds :
          ( /\ response'.op = "click"
            /\ response'.h = h
            /\ loc[h].alone
            /\ loc[h].tracking_id = i ) =>
              ClicksOf(i)' - loc[h].pre.clicks
                  = Len(History') - Len(loc[h].pre.history)]_vars

\* C4: the response to a click request is a 302 redirect to
\* FINAL_DESTINATION, whatever the outcome: accepted, bot, unconfirmed or
\* unknown, rate-limited, or an internal error.
C4_ClickAlwaysRedirects ==
    response.op = "click" =>
        /\ response.status = 302
        /\ response.location = FINAL_DESTINATION

\* a click request that ended in an internal error has been answered
C4_ErrorClickAnswered ==
    /\ response.op = "click"
    /\ response.outcome = "error"
    /\ response.status = 302

\* C5: a click request that was handled with no other request in progress
\* and ends at a storage failure leaves its post (existence, clicks,
\* first_click, last_click) and the click history as it found them.
C5_StorageFailureCountsNothing ==
    [][\A h \in Handlers, i \in TrackingIds :
          ( /\ response'.op = "click"
            /\ response'.h = h
            /\ faults' # faults
            /\ loc[h].alone
            /\ loc[h].tracking_id = i ) =>
              View(i)' = loc[h].pre]_vars

\* C6: a post with no clicks has no first_click, and the first_click of a
\* post, once set, is the same in the next state, unless the step is the
\* one of generate_tracking_url or reset_all that replaces or drops the
\* post.
C6_FirstClickSetOnce ==
    [][\A i \in TrackingIds :
          /\ (i \in DOMAIN Posts /\ Posts[i].clicks = 0 /\ ~upset[i])
                => Posts[i].first_click = NULL
          /\ ( /\ i \in DOMAIN Posts
               /\ i \in DOMAIN Posts'
               /\ Posts[i].first_click # NULL
               /\ \A h \in Handlers : pc'[h] = "gen_save" => pc[h] = "gen_save" )
                => Posts'[i].first_click = Posts[i].first_click]_vars

\* C7: when no request is in progress, the last_click of a post that has
\* accepted clicks (and was never dropped or replaced, with no click on it
\* ended in an error) is the largest timestamp an accepted click on it
\* took, and is not earlier than its first_click.
C7_LastClickIsLatest ==
    Idle =>
        \A i \in TrackingIds :
            (i \in DOMAIN Posts /\ ~upset[i] /\ accepted[i] > 0) =>
                /\ Posts[i].last_click = max_now[i]
                /\ Posts[i].last_click >= Posts[i].first_click

\* C8: no step other than the one in which reset_all drops the posts
\* lowers the clicks counter of a tracking id.
C8_ClicksNeverDecrease ==
    [][\A i \in TrackingIds :
          (\A h \in Handlers :
              /\ pc'[h] = "reset_save" => pc[h] = "reset_save"
              /\ pc[h] = "reset_commit" => pc'[h] = "reset_commit")
            => ClicksOf(i)' >= ClicksOf(i)]_vars

\* C9: a post comes into existence pending, with no clicks; a post becomes
\* confirmed only by the commit of confirm_post; a post stays, and a
\* confirmed post stays confirmed, in every step but the commit of
\* reset_all.
C9_PendingThenConfirmedForGood ==
    [][\A i \in TrackingIds :
          /\ (i \notin DOMAIN posts /\ i \in DOMAIN posts')
                => (~posts'[i].confirmed /\ posts'[i].clicks = 0)
          /\ ( /\ i \in DOMAIN posts /\ ~posts[i].confirmed
               /\ i \in DOMAIN posts' /\ posts'[i].confirmed )
                => (response'.op = "confirm" /\ response'.tracking_id = i)
          /\ ( /\ i \in DOMAIN posts
               /\ \A h \in Handlers :
                     pc[h] = "reset_commit" => pc'[h] = "reset_commit" )
                => /\ i \in DOMAIN posts'
                   /\ posts[i].confirmed => posts'[i].confirmed]_vars

\* a generated post has been confirmed
C9_GeneratedThenConfirmed ==
    /\ variant = "db"
    /\ response.op = "confirm"
    /\ response.outcome = "confirmed"
    /\ response.tracking_id = "e5f6a7b8"
    /\ posts["e5f6a7b8"].confirmed

\* C10: a confirm_post whose tracking_id matches no post, and that meets no
\* storage failure, is answered 404 and leaves the posts, the click history
\* and the bot counter as they were.
C10_ConfirmUnknownIsNotFound ==
    [][( /\ response'.op = "confirm"
         /\ response'.tracking_id \notin DOMAIN posts
         /\ faults' = faults ) =>
            /\ response'.status = 404
            /\ UNCHANGED << posts, click_history, stats >>]_vars

\* a confirm_post of an unknown tracking id has been answered
C10_UnknownConfirmAnswered ==
    /\ variant = "db"
    /\ response.op = "confirm"
    /\ response.outcome = "not_found"
    /\ response.tracking_id \notin DOMAIN posts

\* C11: the commit of a confirm_post on an existing post leaves the post
\* confirmed, with the request's post_url and platform, and with the clicks,
\* first_click and last_click it had; the click history is unchanged; and
\* when the post already was what a confirm_post with these arguments
\* makes of it, nothing but confirmed_at differs afterwards.
C11_ConfirmOverwritesAndKeepsClicks ==
    [][\A h \in Handlers, i \in TrackingIds :
          ( /\ response'.op = "confirm"
            /\ response'.outcome = "confirmed"
            /\ response'.h = h
            /\ loc[h].tracking_id = i ) =>
              /\ i \in DOMAIN posts /\ i \in DOMAIN posts'
              /\ posts'[i].confirmed
              /\ posts'[i].post_url = loc[h].post_url
              /\ posts'[i].platform = loc[h].platform
              /\ posts'[i].clicks = posts[i].clicks
              /\ posts'[i].first_click = posts[i].first_click
              /\ posts'[i].last_click = posts[i].last_click
              /\ click_history' = click_history
              /\ ( /\ posts[i].confirmed
                   /\ posts[i].post_url = loc[h].post_url
                   /\ posts[i].platform = loc[h].platform
                   /\ loc[h].username \in {"", "unknown", posts[i].username} )
                    => posts'[i] = [posts[i] EXCEPT
                                       !.confirmed_at = posts'[i].confirmed_at]]_vars

\* a post with counted clicks has been confirmed again, under another
\* platform
C11_ClickedPostReconfirmed ==
    /\ variant = "db"
    /\ response.op = "confirm"
    /\ response.outcome = "confirmed"
    /\ response.tracking_id = "a1b2c3d4"
    /\ posts["a1b2c3d4"].clicks > 0
    /\ posts["a1b2c3d4"].platform = "linkedin"


\* Claim C12 (as amended): for one (ip, tracking_id) on one tracker, a call
\* to is_rate_limited that comes less than 60 seconds after five earlier
\* calls that were not limited returns limited; and a call that comes more
\* than 3600 seconds after the entry's last-seen time is not limited and
\* leaves the entry with count 1.
C12_BurstLimitedAndExpiryResets ==
    \A m \in 1..Len(probe) :
        /\ Cardinality({ k \in 1..(m - 1) :
                            /\ ~probe[k].limited
                            /\ probe[m].t - probe[k].t < BURST_WINDOW }) >= BURST_LIMIT
              => probe[m].limited
        /\ (probe[m].seen # NULL /\ probe[m].t - probe[m].seen > RESET_WINDOW)
              => ~probe[m].limited /\ probe[m].count = 1

\* A sixth call in a burst was limited, and a later call found the entry
\* expired.
C12_BurstThenExpiry ==
    \E m, n \in 1..Len(probe) :
        /\ m < n
        /\ probe[m].limited
        /\ Cardinality({ k \in 1..(m - 1) : ~probe[k].limited
                            /\ probe[m].t - probe[k].t < BURST_WINDOW }) >= BURST_LIMIT
        /\ probe[n].seen # NULL /\ probe[n].t - probe[n].seen > RESET_WINDOW
        /\ probe[n].count = 1

\* Claim C12 (as stated): after five calls within one 60-second span, the
\* sixth call within the same 60 seconds returns limited.
C12_SixthCallInSpanLimited ==
    \A m \in (BURST_LIMIT + 1)..Len(probe) :
        probe[m].t - probe[m - BURST_LIMIT].t < BURST_WINDOW => probe[m].limited


\* Claim C13: a click request that is rejected as rate-limited changes
\* nothing but the stale entries the sweep removes: every entry that stays
\* (the request's own among them) keeps its count and its last-seen time, no
\* entry is added, and the posts, the click history, the Bot-Block Counter
\* and the file are as they were.
C13_RateLimitedClickChangesNothing ==
    [][\A h \in Handlers :
          ( /\ response'.op = "click" /\ response'.outcome = "rate_limited"
            /\ response'.h = h ) =>
              LET a == ip_tracker[ProcOf(h)]
                  b == ip_tracker'[ProcOf(h)]
              IN  /\ DOMAIN b \subseteq DOMAIN a
                  /\ \A k \in DOMAIN b : b[k] = a[k]
                  /\ \A k \in DOMAIN a \ DOMAIN b : clock - a[k][1] > RESET_WINDOW
                  /\ \E k \in DOMAIN b :
                        b[k][2] >= BURST_LIMIT /\ clock - b[k][1] < BURST_WINDOW
                  /\ \A q \in Handlers \ {ProcOf(h)} : ip_tracker'[q] = ip_tracker[q]
                  /\ UNCHANGED << posts, click_history, stats, click_data, file >>]_vars

\* A click has just been rejected as rate-limited.
C13_ClickRateLimited ==
    /\ response.op = "click" /\ response.outcome = "rate_limited"
    /\ \E q \in Handlers : \E k \in DOMAIN ip_tracker[q] :
          ip_tracker[q][k][2] = BURST_LIMIT


\* Claim C14: a click request whose user agent classifies as bot changes
\* nothing but the Bot-Block Counter: its first step only sweeps the stale
\* entries of the tracker (no entry is created or incremented), and the step
\* that completes it leaves the tracker, the posts, the click history, the
\* click total and the file as they were; handled with no other request in
\* progress, it raises the Bot-Block Counter by exactly 1.
C14_BotClickCountsOnlyTheBot ==
    [][\A h \in Handlers :
          /\ (pc[h] = "idle" /\ pc'[h] \in {"bot_incr", "bot_wr"}) =>
                LET a == ip_tracker[ProcOf(h)]
                    b == ip_tracker'[ProcOf(h)]
                IN  /\ DOMAIN b \subseteq DOMAIN a
                    /\ \A k \in DOMAIN b : b[k] = a[k]
                    /\ \A k \in DOMAIN a \ DOMAIN b : clock - a[k][1] > RESET_WINDOW
                    /\ \A q \in Handlers \ {ProcOf(h)} : ip_tracker'[q] = ip_tracker[q]
                    /\ UNCHANGED << posts, click_history, stats, click_data, file >>
          /\ ( /\ response'.op = "click" /\ response'.outcome = "bot"
               /\ response'.h = h ) =>
                /\ UNCHANGED << ip_tracker, posts, click_history, file >>
                /\ click_data'.posts = click_data.posts
                /\ click_data'.click_history = click_data.click_history
                /\ click_data'.total_clicks = click_data.total_clicks
                /\ loc[h].alone => BotCounter' = BotCounter + 1]_vars

\* A bot click handled alone has just completed and is counted.
C14_BotClickCounted ==
    /\ response.op = "click" /\ response.outcome = "bot"
    /\ nreq = 1 /\ BotCounter = 1


\* A click request is in progress.
ClickInProgress ==
    \E h \in Handlers :
        pc[h] \in { "bot_incr", "select", "update", "insert", "commit",
                    "bot_wr", "lookup", "rd_clicks", "wr_clicks", "check",
                    "stamp", "record", "truncate", "save" }

\* Claim C15: whenever no click request is in progress, the Bot-Block
\* Counter equals the number of click requests completed as bot since the
\* last reset_all, however they interleaved; it decreases only by reset_all,
\* and a click that completes as accepted, rate-limited or unconfirmed does
\* not change it.
C15_BotCounterCountsBotClicks ==
    /\ [](~ClickInProgress => BotCounter = blocked)
    /\ [][ /\ BotCounter' < BotCounter =>
                \/ response'.op = "reset"
                \/ \E h \in Handlers : pc[h] = "idle" /\ pc'[h] = "reset_save"
           /\ ( /\ response'.op = "click"
                /\ response'.outcome \in {"accepted", "rate_limited", "unconfirmed"} )
                 => BotCounter' = BotCounter ]_vars


\* The tracker of process q holds no entry older than 3600 seconds at time t.
Fresh(q, t) ==
    \A k \in DOMAIN ip_tracker[q] : t - ip_tracker[q][k][1] <= RESET_WINDOW

\* Handler h takes the first step of a click request that has a client
\* address: the sweep, the classification and, for a human, the limiter.
Swept(h) ==
    /\ pc[h] = "idle"
    /\ \/ pc'[h] \in {"bot_incr", "bot_wr", "select", "lookup"}
       \/ /\ response'.op = "click" /\ response'.h = h
          /\ response'.outcome = "rate_limited"

Zeros(body) ==
    /\ body.total_clicks = 0
    /\ body.total_posts = 0
    /\ body.clicks_by_platform = << >>
    /\ body.clicks_by_badge_type = << >>

\* Claim C17: a reset_all handled with no other request in progress leaves
\* no post and no history record and the Bot-Block Counter at 0, and an
\* analytics request that comes right after it, before any other request,
\* answers 200 with total_clicks = 0, total_posts = 0 and empty breakdowns
\* per platform and per badge type.
C17_ResetThenAnalyticsIsZero ==
    [][\A h \in Handlers :
          /\ ( /\ response'.op = "reset" /\ response'.outcome = "reset"
               /\ response'.h = h /\ loc[h].alone ) =>
                 /\ Posts' = << >>
                 /\ History' = << >>
                 /\ BotCounter' = 0
          /\ ( /\ response'.op = "analytics" /\ response'.h = h
               /\ loc[h].after_reset /\ loc[h].alone ) =>
                 /\ response'.status = 200
                 /\ Zeros(response'.body)]_vars


\* The statements of get_analytics.
AnalyticsLabels == {"an_totals", "an_platform", "an_badge", "an_pending", "an_bot"}

\* Handler h takes a step of an analytics request.
AnalyticsStep(h) ==
    \/ pc[h] = "idle" /\ pc'[h] \in AnalyticsLabels
    \/ pc[h] \in AnalyticsLabels /\ loc'[h].agg # loc[h].agg
    \/ response'.op = "analytics" /\ response'.h = h

\* Claim C18: an analytics request handled with no other request in
\* progress answers 200 and reports total_clicks as the sum of clicks over
\* the confirmed posts, total_posts as their number, and the sums per
\* platform and per badge type over the confirmed posts only, each under
\* the platform it holds now; and no step of an analytics request changes
\* the store or the tracker.
C18_AnalyticsOverConfirmedOnly ==
    [][\A h \in Handlers :
          /\ ( /\ response'.op = "analytics" /\ response'.h = h
               /\ loc[h].alone ) =>
                 LET C == {i \in TrackingIds : Confirmed(i)}
                     body == response'.body
                 IN  /\ response'.status = 200
                     /\ body.total_clicks = SumClicks(Posts, C)
                     /\ body.total_posts = Cardinality(C)
                     /\ body.clicks_by_platform = GroupBy(Posts, C, "platform")
                     /\ body.clicks_by_badge_type = GroupBy(Posts, C, "badge_type")
          /\ AnalyticsStep(h) =>
                 UNCHANGED << ip_tracker, posts, click_history, stats,
                              click_data, file >>]_vars


\* The sum of the values of a breakdown.
RECURSIVE SumOf(_)
SumOf(f) ==
    IF DOMAIN f = {} THEN 0
    ELSE LET g == CHOOSE x \in DOMAIN f : TRUE
         IN  f[g] + SumOf([x \in DOMAIN f \ {g} |-> f[x]])

\* The aggregate agrees with itself: one total, however it is broken down.
OneSnapshot(agg) ==
    /\ agg.total_clicks = SumOf(agg.clicks_by_platform)
    /\ agg.total_clicks = SumOf(agg.clicks_by_badge_type)
    /\ agg.total_clicks = SumClicks(agg.posts, DOMAIN agg.posts)
    /\ \A m, n \in DOMAIN agg.bot_requests_blocked :
          agg.bot_requests_blocked[m] = agg.bot_requests_blocked[n]

\* Claim C19: whatever commits while an analytics request is computed, the
\* aggregate it has gathered once its aggregate queries are done, and the
\* aggregate it returns, correspond to one state of the store: total_clicks
\* is the sum of the sums per platform, the sum of the sums per badge type
\* and the sum of clicks over the post list, and the bot-block value is the
\* same everywhere.
C19_AnalyticsIsOneSnapshot ==
    [][\A h \in Handlers :
          /\ (pc[h] = "an_badge" /\ pc'[h] = "an_pending") => OneSnapshot(loc'[h].agg)
          /\ ( /\ response'.op = "analytics" /\ response'.h = h
               /\ response'.status = 200 ) => OneSnapshot(response'.body)]_vars


\* Claim C20: a user agent that is empty, or one of whose parts is a
\* deny-list token in whatever letter case, classifies as bot, whatever
\* browser or mobile tokens it holds besides.
C20_DenyListedOrEmptyIsBot ==
    (probe.verdict # NoVerdict /\ (probe.ua = "" \/ probe.deny))
        => probe.verdict = "bot"

\* An upper-case deny-list token next to a browser token has been
\* classified as bot.
C20_MixedCaseBotClassified ==
    /\ probe.ua = "Mozilla/5.0 TWITTERBOT"
    /\ probe.verdict = "bot"


\* Claim C21: a user agent that is not empty and has no deny-list token
\* classifies as bot exactly when it has neither a browser token nor a
\* mobile token and has an HTTP-client or library pattern; with a browser
\* token it is human even next to a library pattern, and with none of
\* these tokens it is human.
C21_LibraryWithoutBrowserIsBot ==
    (probe.verdict # NoVerdict /\ probe.ua # "" /\ ~probe.deny) =>
        ( probe.verdict = "bot" <=>
            (~probe.browser /\ ~probe.mobile /\ probe.library) )

\* A library pattern alone has been classified as bot.
C21_LibraryClassifiedBot ==
    /\ probe.ua = "Python-urllib/3.11"
    /\ probe.verdict = "bot"

(***************************************************************************)
(* C22: run side by side on the same sequence of generate and click        *)
(* requests (same ids, user agents, client addresses and times), the two   *)
(* variants classify each click the same way (bot, rate-limited, or        *)
(* neither) and leave every tracking id with the same clicks counter and   *)
(* the same bot-block counter: whenever both have answered the requests    *)
(* fed so far.                                                             *)
(***************************************************************************)
DbClicks(i) == IF i \in DOMAIN posts THEN posts[i].clicks ELSE 0
FileClicks(i) ==
    IF i \in DOMAIN click_data.posts THEN click_data.posts[i].clicks ELSE 0

C22_VariantsAgree ==
    probe.phase = "choose" =>
        /\ probe.same
        /\ \A i \in TrackingIds : DbClicks(i) = FileClicks(i)
        /\ stats = click_data.bot_requests_blocked

\* s is an initial part of t.
IsPrefix(s, t) == Len(s) <= Len(t) /\ SubSeq(t, 1, Len(s)) = s

\* The step is the one in which reset_all empties the store.
ResetStep ==
    \E h \in Handlers :
        \/ pc[h] = "reset_commit" /\ pc'[h] # "reset_commit"
        \/ pc[h] # "reset_save" /\ pc'[h] = "reset_save"

\* The step is the one in which a click of the file-backed variant replaces
\* the history by the slice it took.
TruncationStep ==
    \E h \in Handlers : pc[h] = "truncate" /\ pc'[h] # "truncate"

C24_BotCounterPersisted ==
    (variant = "file" /\ response.op = "click" /\ Idle) =>
        load_data.bot_requests_blocked = click_data.bot_requests_blocked

history_clicks(i) ==
    Len(SelectSeq(History, LAMBDA c : c.tracking_id = i /\ c.is_human))

matches(i) == history_clicks(i) = Posts[i].clicks

(***************************************************************************)
(* C26: whenever no click request is in progress, for every post the       *)
(* number of human click-history records carrying its tracking id equals   *)
(* the post's clicks counter: the 'matches' field of the debug endpoint    *)
(* is true.                                                                *)
(***************************************************************************)
C26_HistoryMatchesClicks ==
    ~ClickInProgress => \A i \in DOMAIN Posts : matches(i)

(***************************************************************************)
(* C27: for the pair the calls are made for, in any sequence and any       *)
(* interleaving of the calls, no span shorter than 60 seconds holds more   *)
(* than 5 calls of is_rate_limited that returned not-limited: of the       *)
(* logged calls that were let through, at most 5 read a time in the 60     *)
(* seconds that start with any one of them.                                *)
(***************************************************************************)
Admitted == {j \in 1..Len(probe) : ~probe[j].limited}

AdmittedInSpan(i) ==
    {j \in Admitted : probe[j].t >= probe[i].t /\ probe[j].t - probe[i].t < BURST_WINDOW}

C27_AtMostFiveAdmittedPerSpan ==
    \A i \in Admitted : Cardinality(AdmittedInSpan(i)) <= BURST_LIMIT

(***************************************************************************)
(* C28: rate-limit state is kept per pair.  A call for a pair finds an     *)
(* entry only if an earlier call for the same pair was let through at the  *)
(* last-seen time it finds (it reads no other pair's entry); the only      *)
(* entry a call changes is the one of its own pair, and no other pair of   *)
(* KeyPairs is mapped to that entry.                                       *)
(***************************************************************************)
SamePair(i, j) ==
    probe[i].ip = probe[j].ip /\ probe[i].tracking_id = probe[j].tracking_id

OwnersOf(k) == {pair \in KeyPairs : Key(pair[1], pair[2]) = k}

C28_StateKeptPerPair ==
    \A j \in 1..Len(probe) :
        /\ probe[j].seen # NULL =>
              \E i \in 1..(j - 1) :
                  SamePair(i, j) /\ ~probe[i].limited /\ probe[i].t = probe[j].seen
        /\ \A k \in probe[j].changed :
              OwnersOf(k) = {<< probe[j].ip, probe[j].tracking_id >>}

(***************************************************************************)
(* C29: the limiter runs before the post is looked at.  A click that is    *)
(* not a bot's, for a tracking id that is unknown or not confirmed, and    *)
(* that the limiter lets through leaves the entry of its (ip, tracking_id) *)
(* in the serving process's tracker with the time of the request and with  *)
(* count 1 (no entry, or one older than 3600 seconds) or the count it had  *)
(* plus 1; and once that entry holds five or more such requests, the last  *)
(* of them less than 60 seconds ago, no click of that client on that id is *)
(* let through to the lookup, whether the post is confirmed or not.        *)
(***************************************************************************)
C29_LimiterBeforeConfirmationGate ==
    [][\A h \in Handlers :
          (pc[h] = "idle" /\ pc'[h] = "select") =>
              \A i \in {loc'[h].tracking_id} : \A ip \in {loc'[h].ip} :
                  LET key == Key(ip, i)
                      a == ip_tracker[ProcOf(h)]
                      b == ip_tracker'[ProcOf(h)]
                      had == key \in DOMAIN a
                  IN  /\ (i \notin DOMAIN posts \/ ~posts[i].confirmed) =>
                            /\ key \in DOMAIN b
                            /\ b[key][1] = clock
                            /\ b[key][2] =
                                  IF had /\ ~(clock - a[key][1] > RESET_WINDOW)
                                  THEN a[key][2] + 1 ELSE 1
                      /\ ~( /\ had
                            /\ a[key][2] >= BURST_LIMIT
                            /\ clock - a[key][1] < BURST_WINDOW )]_vars

\* Five clicks of one client on a post that was not confirmed were let
\* through by the limiter and none was counted; the post has been confirmed
\* since, and the client's next click on it, within the minute, has just
\* been rejected as rate-limited.
C29_LimitedAfterConfirmation ==
    /\ variant = "db"
    /\ response.op = "click" /\ response.outcome = "rate_limited"
    /\ response.tracking_id \in DOMAIN posts
    /\ posts[response.tracking_id].confirmed
    /\ posts[response.tracking_id].clicks = 0
    /\ accepted[response.tracking_id] = 0
    /\ \E q \in Handlers :
          /\ Key(Ip0, response.tracking_id) \in DOMAIN ip_tracker[q]
          /\ ip_tracker[q][Key(Ip0, response.tracking_id)][2] = BURST_LIMIT
          /\ clock - ip_tracker[q][Key(Ip0, response.tracking_id)][1] < BURST_WINDOW

=============================================================================
